---- MODULE Spec2Model ----
(***************************************************************************)
(* State-transition engine of the useGameState hook                        *)
(* (src/src/hooks/useGameState.ts).  Every operation of the hook is a pure *)
(* transform  state -> state  (an operator below, named after the hook     *)
(* function with a T suffix) that the dispatcher updateGameState applies   *)
(* to the committed state.  The actions pick the arguments from small sets *)
(* and commit the transform's result.                                      *)
(*                                                                         *)
(* Numbers: the code computes in IEEE-754 doubles.  Every product with a   *)
(* decimal factor followed by Math.floor is modelled by an operator that   *)
(* returns what the double computation returns (exact integer arithmetic   *)
(* minus one at the arguments where the double product falls just below    *)
(* the exact integer).  knowledgeStreak.multiplier is kept in tenths.      *)
(***************************************************************************)
EXTENDS Integers, Sequences, FiniteSets, TLC

VARIABLES gameState, isLoading, storage, lastOp, combats, saveDue

vars == <<gameState, isLoading, storage, lastOp, combats, saveDue>>

\* ------------------------------------------------------------------ bounds

\* attacks answered per game lifetime (statistics.totalQuestionsAnswered)
MaxQuestions == 3
\* selectAdventureSkill / skipAdventureSkills calls per game lifetime
MaxCombats == 2
\* attacks answered per game lifetime where the victory rewards are explored
MaxRewardQuestions == 5
MaxJourneyQuestions == 2
\* attacks answered per game lifetime where combats are fought to their end; no
\* combat of MaxCombats + 1 comes near it
MaxDuelQuestions == 60
\* chests opened per game lifetime (statistics.chestsOpened)
MaxChests == 2
\* largest magnitude of coins, of gems and of shinyGems an operation may leave
MaxCoins == 1200
MaxGems == 10
MaxShinyGems == 1
\* gem nodes mined per game lifetime (mining.totalGemsMined + totalShinyGemsMined)
MaxMined == 1
\* largest magnitude of gardenOfGrowth.waterHoursRemaining
MaxWaterHours == 24

\* ------------------------------------------------------------- null, skills

\* null / undefined of a nullable object (currentEnemy, selectedSkill, gameState)
Null == [isNull |-> TRUE]

\* new Date()
Now == [date |-> "now"]

SkillTypes ==
    {"risker", "lightning_chain", "skip_card", "metal_shield", "truth_lies", "ramp", "dodge"}

\* an AdventureSkill definition; its id and its type are the same word
Skill(t) == [id |-> t, type |-> t]

allSkills == <<Skill("risker"), Skill("lightning_chain"), Skill("skip_card"),
               Skill("metal_shield"), Skill("truth_lies"), Skill("ramp"), Skill("dodge")>>

\* selectedSkill?.type
SkillType(s) == IF s = Null THEN "none" ELSE s.type

emptySkillEffects ==
    [skipCardUsed |-> FALSE, metalShieldUsed |-> FALSE, dodgeUsed |-> FALSE,
     truthLiesActive |-> FALSE, lightningChainActive |-> FALSE, rampActive |-> FALSE]

emptyAdventureSkills ==
    [selectedSkill |-> Null, availableSkills |-> <<>>, showSelectionModal |-> FALSE,
     skillEffects |-> emptySkillEffects]

\* ------------------------------------------------------- double arithmetic

\* arguments x <= 1000 at which the double product x * 1.15 is below the exact one
Short115 == {100, 180, 200, 220, 340, 360, 380, 400, 420, 440, 660, 680, 700, 720,
             740, 760, 780, 800, 820, 840, 860, 880}

\* arguments x <= 1000 at which the double product x * 0.7 is below the exact one
Short07 == {90, 170, 180, 330, 340, 350, 360, 650, 660, 670, 680, 690, 700, 710, 720, 730}

\* <<b, n>>, b <= 400, n <= 15, at which the double b * (1 + n * 0.1) is below the exact one
ShortMult == {<<45, 4>>, <<85, 4>>, <<90, 4>>, <<165, 4>>, <<170, 4>>, <<175, 4>>,
              <<180, 4>>, <<325, 4>>, <<330, 4>>, <<335, 4>>, <<340, 4>>, <<345, 4>>,
              <<350, 4>>, <<355, 4>>, <<360, 4>>, <<365, 4>>, <<50, 13>>, <<90, 13>>,
              <<100, 13>>, <<110, 13>>, <<170, 13>>, <<180, 13>>, <<190, 13>>,
              <<200, 13>>, <<210, 13>>, <<220, 13>>, <<330, 13>>, <<340, 13>>,
              <<350, 13>>, <<360, 13>>, <<370, 13>>, <<380, 13>>, <<390, 13>>,
              <<400, 13>>}

Max(a, b) == IF a >= b THEN a ELSE b

\* Math.floor(x * 1.15)
Floor115(x) == (x * 115) \div 100 - (IF x \in Short115 THEN 1 ELSE 0)
\* Math.floor(x * 1.1)
Floor110(x) == (x * 11) \div 10
\* Math.floor(x * 0.85)
Floor085(x) == (x * 85) \div 100
\* Math.floor(x * 1.2)
Floor120(x) == (x * 12) \div 10
\* Math.floor(x * 0.7)
Floor07(x) == (x * 7) \div 10 - (IF x \in Short07 THEN 1 ELSE 0)
\* Math.floor(x * 0.6)
Floor06(x) == (x * 6) \div 10
\* Math.floor(x * 1.5): x * 1.5 is exact in doubles
Floor15(x) == (x * 3) \div 2

\* Math.floor(b * multiplier), multiplier = 1 + n * 0.1 kept as m10 = 10 + n tenths
FloorTimesMultiplier(b, m10) ==
    (b * m10) \div 10 - (IF <<b, m10 - 10>> \in ShortMult THEN 1 ELSE 0)

\* ---------------------------------------------------------- initial state

createInitialGameState ==
    [coins |-> 100, gems |-> 0, shinyGems |-> 0, zone |-> 1,
     playerStats |-> [hp |-> 100, maxHp |-> 100, atk |-> 20, def |-> 10,
                      baseAtk |-> 20, baseDef |-> 10, baseHp |-> 100],
     inventory |-> [weapons |-> <<>>, armor |-> <<>>, relics |-> <<>>,
                    currentWeapon |-> Null, currentArmor |-> Null,
                    equippedRelics |-> <<>>],
     currentEnemy |-> Null,
     inCombat |-> FALSE,
     research |-> [level |-> 0, totalSpent |-> 0],
     isPremium |-> FALSE,
     knowledgeStreak |-> [current |-> 0, best |-> 0, multiplier |-> 10],
     statistics |-> [totalQuestionsAnswered |-> 0, correctAnswers |-> 0,
                     zonesReached |-> 1, itemsCollected |-> 0, coinsEarned |-> 0,
                     gemsEarned |-> 0, shinyGemsEarned |-> 0, chestsOpened |-> 0,
                     accuracyByCategory |-> <<>>,
                     totalDeaths |-> 0, totalVictories |-> 0,
                     totalDamageDealt |-> 0, totalDamageTaken |-> 0,
                     itemsUpgraded |-> 0, itemsSold |-> 0, totalResearchSpent |-> 0,
                     revivals |-> 0],
     collectionBook |-> [weapons |-> {}, armor |-> {},
                         totalWeaponsFound |-> 0, totalArmorFound |-> 0,
                         rarityStats |-> [common |-> 0, rare |-> 0, epic |-> 0,
                                          legendary |-> 0, mythical |-> 0]],
     mining |-> [totalGemsMined |-> 0, totalShinyGemsMined |-> 0],
     dailyRewards |-> [lastClaimDate |-> Null, availableReward |-> Null,
                       rewardHistory |-> <<>>],
     gardenOfGrowth |-> [isPlanted |-> FALSE, plantedAt |-> Null, lastWatered |-> Null,
                         waterHoursRemaining |-> 0,
                         seedCost |-> 1000, waterCost |-> 500],
     yojefMarket |-> [items |-> <<>>],
     hasUsedRevival |-> FALSE,
     skills |-> [activeMenuSkill |-> Null, lastRollTime |-> Null,
                 playTimeThisSession |-> 0, sessionStartTime |-> "now"],
     adventureSkills |-> emptyAdventureSkills]

\* ------------------------------------------------------------- collaborators

\* generateEnemy(zone): an external generator; the model draws the enemy from a
\* small set: one that survives four hits and kills with one blow, one that falls
\* to any hit and scratches
Enemies == {[name |-> "Ogre", hp |-> 100, atk |-> 120, def |-> 0],
            [name |-> "Slime", hp |-> 10, atk |-> 15, def |-> 5]}

\* generateRandomAdventureSkills(): three of the seven skills in shuffled order;
\* the model draws the offering from a small set
Offerings == {<<allSkills[6], allSkills[4], allSkills[7]>>}

\* the draws of the ramp skill: the stat doubled and, among the other two, the
\* stat reduced
RampDraws == {<<d, r>> \in {"atk", "def", "hp"} \X {"atk", "def", "hp"} : d # r}

\* the ramp draws the combat specification explores
CombatRampDraws == {<<"atk", "def">>, <<"hp", "atk">>}

\* zones the cheat teleportToZone is called with
TeleportZones == {0, 10, 40}

\* ---------------------------------------------------------------- combat

startCombatT(state, availableSkills) ==
    [state EXCEPT !.adventureSkills.availableSkills = availableSkills,
                  !.adventureSkills.showSelectionModal = TRUE]

\* a ramp branch whose reduction lands on the stat it has just doubled
ApplyRampSameStat(ps, statToDouble, statToReduce) ==
    [ps EXCEPT ![statToDouble] = Floor06(@ * 2)]

\* the ramp branch: double statToDouble, then reduce statToReduce by 40%
ApplyRamp(ps, statToDouble, statToReduce) ==
    LET d == [ps EXCEPT ![statToDouble] = @ * 2]
    IN  [d EXCEPT ![statToReduce] = Floor06(@)]

selectAdventureSkillT(state, skill, enemy, ramp) ==
    LET ps == state.playerStats
        fx == state.adventureSkills.skillEffects
        modifiedPlayerStats ==
            CASE skill.type = "risker" ->
                     [ps EXCEPT !.hp = Floor085(@), !.atk = Floor120(@)]
              [] skill.type = "ramp" -> ApplyRamp(ps, ramp[1], ramp[2])
              [] OTHER -> ps
        skillEffects ==
            CASE skill.type = "lightning_chain" -> [fx EXCEPT !.lightningChainActive = TRUE]
              [] skill.type = "truth_lies" -> [fx EXCEPT !.truthLiesActive = TRUE]
              [] skill.type = "ramp" -> [fx EXCEPT !.rampActive = TRUE]
              [] OTHER -> fx
    IN  [state EXCEPT
            !.currentEnemy = enemy,
            !.inCombat = TRUE,
            !.playerStats = modifiedPlayerStats,
            !.adventureSkills.selectedSkill = skill,
            !.adventureSkills.showSelectionModal = FALSE,
            !.adventureSkills.skillEffects =
                [skillEffects EXCEPT !.skipCardUsed = FALSE,
                                     !.metalShieldUsed = FALSE,
                                     !.dodgeUsed = FALSE]]

skipAdventureSkillsIdle(state, enemy) ==
    [state EXCEPT
        !.currentEnemy = enemy,
        !.adventureSkills.selectedSkill = Null,
        !.adventureSkills.showSelectionModal = FALSE,
        !.adventureSkills.skillEffects = emptySkillEffects]

skipAdventureSkillsT(state, enemy) ==
    [state EXCEPT
        !.currentEnemy = enemy,
        !.inCombat = TRUE,
        !.adventureSkills.selectedSkill = Null,
        !.adventureSkills.showSelectionModal = FALSE,
        !.adventureSkills.skillEffects = emptySkillEffects]

useSkipCardT(state) ==
    [state EXCEPT !.adventureSkills.skillEffects.skipCardUsed = TRUE]

teleportToZoneT(state, zone) == [state EXCEPT !.zone = Max(1, zone)]

\* the absent category argument (attack's category is optional)
NoCategory == ""

\* accuracyByCategory[category] after one more answer
CountAnswer(acc, category, correct) ==
    LET old == IF category \in DOMAIN acc THEN acc[category]
               ELSE [correct |-> 0, total |-> 0]
        new == [correct |-> old.correct + correct, total |-> old.total + 1]
    IN  [c \in DOMAIN acc \cup {category} |-> IF c = category THEN new ELSE acc[c]]

\* attackHit with a streak multiplier that lags one hit behind
attackHitStaleMultiplier(state, category) ==
    LET base == Max(1, state.playerStats.atk - state.currentEnemy.def)
        damage == IF state.adventureSkills.skillEffects.lightningChainActive
                  THEN Floor115(base) ELSE base
        current == state.knowledgeStreak.current + 1
    IN  [state EXCEPT
            !.currentEnemy.hp = Max(0, @ - damage),
            !.knowledgeStreak = [current |-> current,
                                 best |-> IF current > @.best THEN current ELSE @.best,
                                 multiplier |-> 10 + state.knowledgeStreak.current],
            !.statistics.correctAnswers = @ + 1,
            !.statistics.totalDamageDealt = @ + damage,
            !.statistics.accuracyByCategory =
                IF category # NoCategory THEN CountAnswer(@, category, 1) ELSE @]

\* attackHit without the bonus of the lightning chain
attackHitPlain(state, category) ==
    LET damage == Max(1, state.playerStats.atk - state.currentEnemy.def)
        current == state.knowledgeStreak.current + 1
    IN  [state EXCEPT
            !.currentEnemy.hp = Max(0, @ - damage),
            !.knowledgeStreak = [current |-> current,
                                 best |-> IF current > @.best THEN current ELSE @.best,
                                 multiplier |-> 10 + current],
            !.statistics.correctAnswers = @ + 1,
            !.statistics.totalDamageDealt = @ + damage,
            !.statistics.accuracyByCategory =
                IF category # NoCategory THEN CountAnswer(@, category, 1) ELSE @]

\* lines 601-630: the player's answer was right
attackHit(state, category) ==
    LET base == Max(1, state.playerStats.atk - state.currentEnemy.def)
        damage == IF state.adventureSkills.skillEffects.lightningChainActive
                  THEN Floor115(base) ELSE base
        current == state.knowledgeStreak.current + 1
    IN  [state EXCEPT
            !.currentEnemy.hp = Max(0, @ - damage),
            !.knowledgeStreak = [current |-> current,
                                 best |-> IF current > @.best THEN current ELSE @.best,
                                 multiplier |-> 10 + current],
            !.statistics.correctAnswers = @ + 1,
            !.statistics.totalDamageDealt = @ + damage,
            !.statistics.accuracyByCategory =
                IF category # NoCategory THEN CountAnswer(@, category, 1) ELSE @]

\* attackMiss with a dodge that never wears off
attackMissDodgesAgain(state, category) ==
    LET base == Max(1, state.currentEnemy.atk - state.playerStats.def)
        fx == state.adventureSkills.skillEffects
        dodges == SkillType(state.adventureSkills.selectedSkill) = "dodge"
        enemyDamage == IF fx.lightningChainActive THEN Floor110(base) ELSE base
        struck == IF dodges
                  THEN [state EXCEPT !.adventureSkills.skillEffects.dodgeUsed = TRUE]
                  ELSE [state EXCEPT !.playerStats.hp = Max(0, @ - enemyDamage),
                                     !.statistics.totalDamageTaken = @ + enemyDamage]
    IN  [struck EXCEPT
            !.knowledgeStreak.current = 0,
            !.knowledgeStreak.multiplier = 10,
            !.statistics.accuracyByCategory =
                IF category # NoCategory THEN CountAnswer(@, category, 0) ELSE @]

\* lines 631-660: the player's answer was wrong
attackMiss(state, category) ==
    LET base == Max(1, state.currentEnemy.atk - state.playerStats.def)
        fx == state.adventureSkills.skillEffects
        dodges == fx.dodgeUsed = FALSE
                  /\ SkillType(state.adventureSkills.selectedSkill) = "dodge"
        enemyDamage == IF fx.lightningChainActive THEN Floor110(base) ELSE base
        struck == IF dodges
                  THEN [state EXCEPT !.adventureSkills.skillEffects.dodgeUsed = TRUE]
                  ELSE [state EXCEPT !.playerStats.hp = Max(0, @ - enemyDamage),
                                     !.statistics.totalDamageTaken = @ + enemyDamage]
    IN  [struck EXCEPT
            !.knowledgeStreak.current = 0,
            !.knowledgeStreak.multiplier = 10,
            !.statistics.accuracyByCategory =
                IF category # NoCategory THEN CountAnswer(@, category, 0) ELSE @]

\* victoryCheck with the rewards computed from the zone just entered
victoryCheckNewZone(state) ==
    IF state.currentEnemy.hp <= 0
    THEN LET zone == state.zone + 1
             coinReward == FloorTimesMultiplier(10 + zone * 2,
                                                state.knowledgeStreak.multiplier)
             gemReward == FloorTimesMultiplier(1 + (zone \div 5),
                                               state.knowledgeStreak.multiplier)
         IN  [state EXCEPT
                !.coins = @ + coinReward,
                !.gems = @ + gemReward,
                !.zone = zone,
                !.inCombat = FALSE,
                !.currentEnemy = Null,
                !.adventureSkills = emptyAdventureSkills,
                !.isPremium = IF zone >= 50 THEN TRUE ELSE @,
                !.statistics.totalVictories = @ + 1,
                !.statistics.coinsEarned = @ + coinReward,
                !.statistics.gemsEarned = @ + gemReward,
                !.statistics.zonesReached = Max(@, zone)]
    ELSE state

\* victoryCheck that leaves the adventure skill selected
victoryCheckKeepsSkill(state) ==
    IF state.currentEnemy.hp <= 0
    THEN LET coinReward == FloorTimesMultiplier(10 + state.zone * 2,
                                                state.knowledgeStreak.multiplier)
             gemReward == FloorTimesMultiplier(1 + (state.zone \div 5),
                                               state.knowledgeStreak.multiplier)
             zone == state.zone + 1
         IN  [state EXCEPT
                !.coins = @ + coinReward,
                !.gems = @ + gemReward,
                !.zone = zone,
                !.inCombat = FALSE,
                !.currentEnemy = Null,
                !.isPremium = IF zone >= 50 THEN TRUE ELSE @,
                !.statistics.totalVictories = @ + 1,
                !.statistics.coinsEarned = @ + coinReward,
                !.statistics.gemsEarned = @ + gemReward,
                !.statistics.zonesReached = Max(@, zone)]
    ELSE state

\* lines 664-700: the enemy is defeated
victoryCheck(state) ==
    IF state.currentEnemy.hp <= 0
    THEN LET coinReward == FloorTimesMultiplier(10 + state.zone * 2,
                                                state.knowledgeStreak.multiplier)
             gemReward == FloorTimesMultiplier(1 + (state.zone \div 5),
                                               state.knowledgeStreak.multiplier)
             zone == state.zone + 1
         IN  [state EXCEPT
                !.coins = @ + coinReward,
                !.gems = @ + gemReward,
                !.zone = zone,
                !.inCombat = FALSE,
                !.currentEnemy = Null,
                !.adventureSkills = emptyAdventureSkills,
                !.isPremium = IF zone >= 50 THEN TRUE ELSE @,
                !.statistics.totalVictories = @ + 1,
                !.statistics.coinsEarned = @ + coinReward,
                !.statistics.gemsEarned = @ + gemReward,
                !.statistics.zonesReached = Max(@, zone)]
    ELSE state

\* defeatCheck with a revival that forgets to consume the lifetime flag
defeatCheckKeepsRevival(state) ==
    IF state.playerStats.hp <= 0
    THEN IF SkillType(state.adventureSkills.selectedSkill) = "metal_shield"
            /\ ~state.adventureSkills.skillEffects.metalShieldUsed
         THEN [state EXCEPT
                 !.playerStats.hp = 1,
                 !.playerStats.atk = Floor07(@),
                 !.adventureSkills.skillEffects.metalShieldUsed = TRUE]
         ELSE IF ~state.hasUsedRevival
         THEN [state EXCEPT
                 !.playerStats.hp = state.playerStats.maxHp,
                 !.statistics.revivals = @ + 1]
         ELSE [state EXCEPT
                 !.inCombat = FALSE,
                 !.currentEnemy = Null,
                 !.statistics.totalDeaths = @ + 1,
                 !.adventureSkills = emptyAdventureSkills]
    ELSE state

\* defeatCheck with a shield that is never marked as used
defeatCheckShieldsAgain(state) ==
    IF state.playerStats.hp <= 0
    THEN IF SkillType(state.adventureSkills.selectedSkill) = "metal_shield"
         THEN [state EXCEPT
                 !.playerStats.hp = 1,
                 !.playerStats.atk = Floor07(@)]
         ELSE IF ~state.hasUsedRevival
         THEN [state EXCEPT
                 !.playerStats.hp = state.playerStats.maxHp,
                 !.hasUsedRevival = TRUE,
                 !.statistics.revivals = @ + 1]
         ELSE [state EXCEPT
                 !.inCombat = FALSE,
                 !.currentEnemy = Null,
                 !.statistics.totalDeaths = @ + 1,
                 !.adventureSkills = emptyAdventureSkills]
    ELSE state

\* lines 702-738: the player is defeated
defeatCheck(state) ==
    IF state.playerStats.hp <= 0
    THEN IF SkillType(state.adventureSkills.selectedSkill) = "metal_shield"
            /\ ~state.adventureSkills.skillEffects.metalShieldUsed
         THEN [state EXCEPT
                 !.playerStats.hp = 1,
                 !.playerStats.atk = Floor07(@),
                 !.adventureSkills.skillEffects.metalShieldUsed = TRUE]
         ELSE IF ~state.hasUsedRevival
         THEN [state EXCEPT
                 !.playerStats.hp = state.playerStats.maxHp,
                 !.hasUsedRevival = TRUE,
                 !.statistics.revivals = @ + 1]
         ELSE [state EXCEPT
                 !.inCombat = FALSE,
                 !.currentEnemy = Null,
                 !.statistics.totalDeaths = @ + 1,
                 !.adventureSkills = emptyAdventureSkills]
    ELSE state

\* line 662
countQuestion(state) == [state EXCEPT !.statistics.totalQuestionsAnswered = @ + 1]

attackT(state, hit, category) ==
    IF state.currentEnemy = Null THEN state
    ELSE defeatCheck(victoryCheck(countQuestion(
             IF hit THEN attackHit(state, category) ELSE attackMiss(state, category))))

\* the snapshot attack was given, as attack leaves it: newState is a shallow copy, so
\* the writes to its playerStats, currentEnemy, knowledgeStreak, statistics and
\* skillEffects land in the objects of the snapshot, while its top-level fields and
\* the adventureSkills object that a victory or a game over replaces in newState stay
attackInput(state, hit, category) ==
    IF state.currentEnemy = Null THEN state
    ELSE LET struck == countQuestion(
                           IF hit THEN attackHit(state, category)
                           ELSE attackMiss(state, category))
             won == victoryCheck(struck)
             final == defeatCheck(won)
             skills == IF won.currentEnemy = Null THEN struck.adventureSkills
                       ELSE IF final.currentEnemy = Null THEN won.adventureSkills
                       ELSE final.adventureSkills
         IN  [state EXCEPT
                !.playerStats = final.playerStats,
                !.currentEnemy = struck.currentEnemy,
                !.knowledgeStreak = final.knowledgeStreak,
                !.statistics = final.statistics,
                !.adventureSkills.skillEffects = skills.skillEffects]

\* ------------------------------------------------------- items and generators

\* generateWeapon / generateArmor are external generators; the model draws the
\* item from a small catalogue.  An item's id is unique, so the generator never
\* returns an id the player holds
WeaponCatalog == {[id |-> "w1", name |-> "Sword", upgradeCost |-> 5, sellPrice |-> 10],
                  [id |-> "w2", name |-> "Axe", upgradeCost |-> 8, sellPrice |-> 25]}

ArmorCatalog == {[id |-> "a1", name |-> "Mail", upgradeCost |-> 5, sellPrice |-> 15]}

ItemIds == {e.id : e \in WeaponCatalog \cup ArmorCatalog}

\* generateWeapon(false, rarity) / generateArmor(false, rarity): a level 1 item
NewItem(entry, rarity) ==
    [id |-> entry.id, name |-> entry.name, rarity |-> rarity, level |-> 1,
     upgradeCost |-> entry.upgradeCost, sellPrice |-> entry.sellPrice]

\* the elements of a sequence
Range(seq) == {seq[i] : i \in 1..Len(seq)}

\* ids of the items the player holds or has equipped
HeldIds(state) ==
    {w.id : w \in Range(state.inventory.weapons) \cup Range(state.inventory.armor)}
    \cup (IF state.inventory.currentWeapon = Null THEN {}
          ELSE {state.inventory.currentWeapon.id})
    \cup (IF state.inventory.currentArmor = Null THEN {}
          ELSE {state.inventory.currentArmor.id})

\* array.find(x => x.id === id): the first match, or undefined
Find(seq, id) ==
    IF \E i \in 1..Len(seq) : seq[i].id = id
    THEN seq[CHOOSE i \in 1..Len(seq) :
                 seq[i].id = id /\ \A j \in 1..(i - 1) : seq[j].id # id]
    ELSE Null

\* currentWeapon?.id === id
IsEquipped(current, id) == current # Null /\ current.id = id

\* { ...item, level: level + 1, upgradeCost: Math.floor(upgradeCost * 1.5) }
LevelUp(item) == [item EXCEPT !.level = @ + 1, !.upgradeCost = Floor15(@)]

\* array.map(x => x.id === id ? up(x) : x) for the ids of a set
LevelUpAll(seq, ids) == [i \in 1..Len(seq) |-> IF seq[i].id \in ids THEN LevelUp(seq[i]) ELSE seq[i]]

\* array.reduce((sum, x) => sum + x[field], 0)
RECURSIVE SumField(_, _)
SumField(seq, field) ==
    IF seq = <<>> THEN 0 ELSE Head(seq)[field] + SumField(Tail(seq), field)

\* -------------------------------------------------------- weapons and armor

equipWeaponT(state, weapon) == [state EXCEPT !.inventory.currentWeapon = weapon]

equipArmorT(state, armor) == [state EXCEPT !.inventory.currentArmor = armor]

\* upgradeWeapon (slot "weapons", "currentWeapon") and upgradeArmor ("armor",
\* "currentArmor"): the two functions differ in the slot only
upgradeItemChargesNewCost(state, list, current, itemId) ==
    LET item == Find(state.inventory[list], itemId)
    IN  IF item = Null \/ state.gems < item.upgradeCost THEN state
        ELSE LET updated == LevelUpAll(state.inventory[list], {itemId})
                 updatedCurrent ==
                     IF IsEquipped(state.inventory[current], itemId)
                     THEN Find(updated, itemId)
                     ELSE state.inventory[current]
             IN  [state EXCEPT
                    !.gems = @ - Floor15(item.upgradeCost),
                    !.inventory[list] = updated,
                    !.inventory[current] = updatedCurrent,
                    !.statistics.itemsUpgraded = @ + 1]

upgradeItemT(state, list, current, itemId) ==
    LET item == Find(state.inventory[list], itemId)
    IN  IF item = Null \/ state.gems < item.upgradeCost THEN state
        ELSE LET updated == LevelUpAll(state.inventory[list], {itemId})
                 updatedCurrent ==
                     IF IsEquipped(state.inventory[current], itemId)
                     THEN Find(updated, itemId)
                     ELSE state.inventory[current]
             IN  [state EXCEPT
                    !.gems = @ - item.upgradeCost,
                    !.inventory[list] = updated,
                    !.inventory[current] = updatedCurrent,
                    !.statistics.itemsUpgraded = @ + 1]

upgradeWeaponT(state, weaponId) == upgradeItemT(state, "weapons", "currentWeapon", weaponId)

upgradeArmorT(state, armorId) == upgradeItemT(state, "armor", "currentArmor", armorId)

\* sellWeapon and sellArmor: the two functions differ in the slot only
sellItemT(state, list, current, itemId) ==
    LET item == Find(state.inventory[list], itemId)
        keep(w) == w.id # itemId
    IN  IF item = Null \/ IsEquipped(state.inventory[current], itemId) THEN state
        ELSE [state EXCEPT
                !.coins = @ + item.sellPrice,
                !.inventory[list] = SelectSeq(@, keep),
                !.statistics.itemsSold = @ + 1]

sellWeaponT(state, weaponId) == sellItemT(state, "weapons", "currentWeapon", weaponId)

sellArmorT(state, armorId) == sellItemT(state, "armor", "currentArmor", armorId)

\* bulkSell(itemIds, type): type picks the slot
bulkSellSlotAnyItem(state, list, current, itemIds) ==
    LET sold(w) == w.id \in itemIds
        kept(w) == w.id \notin itemIds
        totalValue == SumField(SelectSeq(state.inventory[list], sold), "sellPrice")
    IN  [state EXCEPT
            !.coins = @ + totalValue,
            !.inventory[list] = SelectSeq(@, kept)]

bulkSellSlot(state, list, current, itemIds) ==
    LET sold(w) == w.id \in itemIds /\ ~IsEquipped(state.inventory[current], w.id)
        kept(w) == w.id \notin itemIds \/ IsEquipped(state.inventory[current], w.id)
        totalValue == SumField(SelectSeq(state.inventory[list], sold), "sellPrice")
    IN  [state EXCEPT
            !.coins = @ + totalValue,
            !.inventory[list] = SelectSeq(@, kept)]

bulkSellT(state, itemIds, type) ==
    IF type = "weapon" THEN bulkSellSlot(state, "weapons", "currentWeapon", itemIds)
    ELSE bulkSellSlot(state, "armor", "currentArmor", itemIds)

\* bulkUpgrade(itemIds, type): type picks the list; the equipped copy is not touched
bulkUpgradeSlot(state, list, itemIds) ==
    LET listed(w) == w.id \in itemIds
        totalCost == SumField(SelectSeq(state.inventory[list], listed), "upgradeCost")
    IN  IF state.gems < totalCost THEN state
        ELSE [state EXCEPT
                !.gems = @ - totalCost,
                !.inventory[list] = LevelUpAll(@, itemIds)]

bulkUpgradeT(state, itemIds, type) ==
    IF type = "weapon" THEN bulkUpgradeSlot(state, "weapons", itemIds)
    ELSE bulkUpgradeSlot(state, "armor", itemIds)

discardItemT(state, itemId, type) ==
    LET keep(w) == w.id # itemId
    IN  IF type = "weapon"
        THEN [state EXCEPT !.inventory.weapons = SelectSeq(@, keep)]
        ELSE [state EXCEPT !.inventory.armor = SelectSeq(@, keep)]

\* ------------------------------------------------------------------ chests

rarities == <<"common", "rare", "epic", "legendary", "mythical">>

\* getChestRarityWeights(cost): an external table of five weights summing to 100;
\* the model has one vector for cheap chests and one for dear ones
ChestRarityWeights(cost) ==
    IF cost >= 100 THEN <<50, 30, 12, 6, 2>> ELSE <<70, 20, 7, 2, 1>>

RECURSIVE RarityLoopStrict(_, _, _, _)
RarityLoopStrict(weights, random, i, cumulative) ==
    IF i > Len(weights) THEN "common"
    ELSE IF random < cumulative + weights[i] THEN rarities[i]
    ELSE RarityLoopStrict(weights, random, i + 1, cumulative + weights[i])

\* lines 392-402: the loop from index i on, cumulative the sum of weights[1..i-1]
RECURSIVE RarityLoop(_, _, _, _)
RarityLoop(weights, random, i, cumulative) ==
    IF i > Len(weights) THEN "common"
    ELSE IF random <= cumulative + weights[i] THEN rarities[i]
    ELSE RarityLoop(weights, random, i + 1, cumulative + weights[i])

selectRarity(weights, random) == RarityLoop(weights, random, 1, 0)

\* openChest(cost), its draws being random (Math.random() * 100), isWeapon
\* (Math.random() < 0.7), the generator's entry and gemBonus
\* (Math.floor(Math.random() * 10) + 5)
openChestT(state, cost, random, isWeapon, entry, gemBonus) ==
    IF state.coins < cost THEN state
    ELSE LET item == NewItem(entry, selectRarity(ChestRarityWeights(cost), random))
             list == IF isWeapon THEN "weapons" ELSE "armor"
             found == IF isWeapon THEN "totalWeaponsFound" ELSE "totalArmorFound"
             isNew == item.name \notin state.collectionBook[list]
         IN  [state EXCEPT
                !.coins = @ - cost,
                !.gems = @ + gemBonus,
                !.inventory[list] = Append(@, item),
                !.collectionBook[list] = @ \cup {item.name},
                !.collectionBook[found] = IF isNew THEN @ + 1 ELSE @,
                !.collectionBook.rarityStats[item.rarity] = @ + 1,
                !.statistics.chestsOpened = @ + 1,
                !.statistics.itemsCollected = @ + 1]

\* the snapshot openChest was given, as openChest leaves it: newCollectionBook is a
\* shallow copy, so the name and the rarity are counted in the objects of the snapshot
openChestInput(state, cost, random, isWeapon, entry) ==
    IF state.coins < cost THEN state
    ELSE LET item == NewItem(entry, selectRarity(ChestRarityWeights(cost), random))
             list == IF isWeapon THEN "weapons" ELSE "armor"
         IN  [state EXCEPT
                !.collectionBook[list] = @ \cup {item.name},
                !.collectionBook.rarityStats[item.rarity] = @ + 1]

\* purchaseMythical(cost), isWeapon being Math.random() < 0.5
purchaseMythicalT(state, cost, isWeapon, entry) ==
    IF state.coins < cost THEN state
    ELSE [state EXCEPT
            !.coins = @ - cost,
            !.inventory[IF isWeapon THEN "weapons" ELSE "armor"] =
                Append(@, NewItem(entry, "mythical"))]

\* ------------------------------------------------------- currency operations

addCoinsT(state, amount) == [state EXCEPT !.coins = @ + amount]

addGemsT(state, amount) == [state EXCEPT !.gems = @ + amount]

\* mineGem(x, y), isShinyNode being Math.random() < 0.05
mineGemT(state, isShinyNode) ==
    IF isShinyNode
    THEN [state EXCEPT !.shinyGems = @ + 1,
                       !.mining.totalShinyGemsMined = @ + 1,
                       !.statistics.shinyGemsEarned = @ + 1]
    ELSE [state EXCEPT !.gems = @ + 1,
                       !.mining.totalGemsMined = @ + 1,
                       !.statistics.gemsEarned = @ + 1]

exchangeShinyGemsT(state, amount) ==
    IF state.shinyGems < amount THEN state
    ELSE [state EXCEPT !.shinyGems = @ - amount, !.gems = @ + amount * 10]

\* buyWater(hours): hours a multiple of 24 in the model, so the cost is an integer
buyWaterT(state, hours) ==
    LET cost == (hours \div 24) * state.gardenOfGrowth.waterCost
    IN  IF state.coins < cost THEN state
        ELSE [state EXCEPT !.coins = @ - cost,
                           !.gardenOfGrowth.waterHoursRemaining = @ + hours]

\* ------------------------------------------------------------------ relics

\* a relic the market holds; baseAtk / baseDef 0 stands for an absent (falsy) base
MarketRelics == <<[id |-> "r1", name |-> "Idol", cost |-> 4, level |-> 1,
                   upgradeCost |-> 5, baseAtk |-> 30, baseDef |-> 0]>>

RelicIds == {"r1", "r9"}

purchaseRelicNoCap(state, relicId) ==
    LET relic == Find(state.yojefMarket.items, relicId)
        keep(r) == r.id # relicId
    IN  IF relic = Null \/ state.gems < relic.cost THEN state
        ELSE [state EXCEPT
                !.gems = @ - relic.cost,
                !.inventory.relics = Append(@, relic),
                !.inventory.equippedRelics = Append(@, relic),
                !.yojefMarket.items = SelectSeq(@, keep)]

purchaseRelicT(state, relicId) ==
    LET relic == Find(state.yojefMarket.items, relicId)
        keep(r) == r.id # relicId
    IN  IF relic = Null \/ state.gems < relic.cost
           \/ Len(state.inventory.equippedRelics) >= 5 THEN state
        ELSE [state EXCEPT
                !.gems = @ - relic.cost,
                !.inventory.relics = Append(@, relic),
                !.inventory.equippedRelics = Append(@, relic),
                !.yojefMarket.items = SelectSeq(@, keep)]

\* the upgraded relic of lines 887-893
RelicLevelUp(r) ==
    [r EXCEPT !.level = @ + 1,
              !.upgradeCost = Floor15(@),
              !.baseAtk = IF @ # 0 THEN @ + 22 ELSE 0,
              !.baseDef = IF @ # 0 THEN @ + 15 ELSE 0]

upgradeRelicStaleCopy(state, relicId) ==
    LET relic == Find(state.inventory.relics, relicId)
    IN  IF relic = Null \/ state.gems < relic.upgradeCost THEN state
        ELSE [state EXCEPT
                !.gems = @ - relic.upgradeCost,
                !.inventory.relics =
                    [i \in 1..Len(@) |->
                        IF @[i].id = relicId THEN RelicLevelUp(@[i]) ELSE @[i]]]

upgradeRelicT(state, relicId) ==
    LET relic == Find(state.inventory.relics, relicId)
    IN  IF relic = Null \/ state.gems < relic.upgradeCost THEN state
        ELSE LET updatedRelics ==
                     [i \in 1..Len(state.inventory.relics) |->
                         IF state.inventory.relics[i].id = relicId
                         THEN RelicLevelUp(state.inventory.relics[i])
                         ELSE state.inventory.relics[i]]
                 updatedEquippedRelics ==
                     [i \in 1..Len(state.inventory.equippedRelics) |->
                         IF state.inventory.equippedRelics[i].id = relicId
                         THEN Find(updatedRelics, relicId)
                         ELSE state.inventory.equippedRelics[i]]
             IN  [state EXCEPT
                    !.gems = @ - relic.upgradeCost,
                    !.inventory.relics = updatedRelics,
                    !.inventory.equippedRelics = updatedEquippedRelics]

equipRelicT(state, relicId) ==
    LET relic == Find(state.inventory.relics, relicId)
    IN  IF relic = Null \/ Len(state.inventory.equippedRelics) >= 5
           \/ Find(state.inventory.equippedRelics, relicId) # Null THEN state
        ELSE [state EXCEPT !.inventory.equippedRelics = Append(@, relic)]

unequipRelicT(state, relicId) ==
    LET keep(r) == r.id # relicId
    IN  [state EXCEPT !.inventory.equippedRelics = SelectSeq(@, keep)]

sellRelicT(state, relicId) ==
    LET keep(r) == r.id # relicId
    IN  [state EXCEPT !.inventory.relics = SelectSeq(@, keep),
                      !.inventory.equippedRelics = SelectSeq(@, keep)]

\* ------------------------------------------- research, rewards, garden, rolls

\* calculateResearchCost(level): an external price list that rises with the level
calculateResearchCost(level) == 150 + 50 * level

upgradeResearchT(state) ==
    LET cost == calculateResearchCost(state.research.level)
    IN  IF state.coins < cost THEN state
        ELSE [state EXCEPT !.coins = @ - cost,
                           !.research.level = @ + 1,
                           !.research.totalSpent = @ + cost,
                           !.statistics.totalResearchSpent = @ + cost]

claimDailyRewardT(state) ==
    LET reward == state.dailyRewards.availableReward
    IN  IF reward = Null THEN state
        ELSE [state EXCEPT
                !.coins = @ + reward.coins,
                !.gems = @ + reward.gems,
                !.dailyRewards.availableReward = Null,
                !.dailyRewards.lastClaimDate = Now,
                !.dailyRewards.rewardHistory =
                    Append(@, [coins |-> reward.coins, gems |-> reward.gems,
                               claimed |-> TRUE, claimDate |-> Now])]

plantSeedT(state) ==
    IF state.coins < state.gardenOfGrowth.seedCost \/ state.gardenOfGrowth.isPlanted
    THEN state
    ELSE [state EXCEPT !.coins = @ - state.gardenOfGrowth.seedCost,
                       !.gardenOfGrowth.isPlanted = TRUE,
                       !.gardenOfGrowth.plantedAt = Now,
                       !.gardenOfGrowth.lastWatered = Now,
                       !.gardenOfGrowth.waterHoursRemaining = 24]

\* the types rollSkill draws from
MenuSkillTypes == {"coin_vacuum", "treasurer", "xp_surge", "luck_gem", "enchanter"}

\* rollSkill(), randomType being the drawn type
rollSkillT(state, randomType) ==
    IF state.coins < 100 THEN state
    ELSE [state EXCEPT !.coins = @ - 100,
                       !.skills.activeMenuSkill = [id |-> randomType, type |-> randomType],
                       !.skills.lastRollTime = Now]

\* ---------------------------------------------------------------- hydration

\* { ...base, ...over }: the keys of both, over winning
Overlay(base, over) ==
    [k \in (DOMAIN base) \cup (DOMAIN over) |->
        IF k \in DOMAIN over THEN over[k] ELSE base[k]]

\* the empty object
EmptyObject == [k \in {} |-> 0]

\* what ...parsedState[field] spreads: nothing when the field is absent or null
SpreadOf(parsedState, field) ==
    IF field \in DOMAIN parsedState /\ parsedState[field] # Null
    THEN parsedState[field]
    ELSE EmptyObject

\* hydration without the nested overlays of skills and adventureSkills
completeStateShallow(parsedState) == Overlay(createInitialGameState, parsedState)

\* completeState of lines 183-194
completeState(parsedState) ==
    [Overlay(createInitialGameState, parsedState) EXCEPT
        !.skills = Overlay(createInitialGameState.skills, SpreadOf(parsedState, "skills")),
        !.adventureSkills = Overlay(createInitialGameState.adventureSkills,
                                    SpreadOf(parsedState, "adventureSkills"))]

\* a stored text JSON.parse rejects
Corrupt == [corrupt |-> TRUE]

loadGameStateNoFallback(savedState) ==
    IF savedState = Null THEN createInitialGameState
    ELSE IF savedState = Corrupt THEN Null
    ELSE completeState(savedState)

\* the state loadGameState sets for what AsyncStorage.getItem returned
loadGameStateT(savedState) ==
    IF savedState = Null \/ savedState = Corrupt THEN createInitialGameState
    ELSE completeState(savedState)

\* -------------------------------------------------------------- dispatcher

\* what one call of an operation was: its name, its arguments, its side-channel result
Op(name, args, ok) == [op |-> name, params |-> args, ok |-> ok]

updateGameStateFromDefault(next) ==
    gameState' = IF gameState = Null THEN createInitialGameState ELSE next

\* updateGameState: the updater runs on the committed state unless it is absent
updateGameState(next) == gameState' = IF gameState = Null THEN gameState ELSE next

\* the updater of the call takes a "return state" path: the state object stays the same
returnsInput(state, op) ==
    LET arg == op.params
        lacks(list, id) == Find(state.inventory[list], id) = Null
        cost(list, id) == Find(state.inventory[list], id).upgradeCost
        listed(w) == w.id \in arg[1]
        total(list) == SumField(SelectSeq(state.inventory[list], listed), "upgradeCost")
    IN  CASE op.op = "attack" -> state.currentEnemy = Null
          [] op.op = "upgradeWeapon" ->
                lacks("weapons", arg[1]) \/ state.gems < cost("weapons", arg[1])
          [] op.op = "upgradeArmor" ->
                lacks("armor", arg[1]) \/ state.gems < cost("armor", arg[1])
          [] op.op = "upgradeRelic" ->
                lacks("relics", arg[1]) \/ state.gems < cost("relics", arg[1])
          [] op.op = "sellWeapon" ->
                lacks("weapons", arg[1])
                \/ IsEquipped(state.inventory.currentWeapon, arg[1])
          [] op.op = "sellArmor" ->
                lacks("armor", arg[1])
                \/ IsEquipped(state.inventory.currentArmor, arg[1])
          [] op.op = "bulkUpgrade" ->
                state.gems < total(IF arg[2] = "weapon" THEN "weapons" ELSE "armor")
          [] op.op \in {"openChest", "purchaseMythical"} -> state.coins < arg[1]
          [] op.op = "exchangeShinyGems" -> state.shinyGems < arg[1]
          [] op.op = "buyWater" ->
                state.coins < (arg[1] \div 24) * state.gardenOfGrowth.waterCost
          [] op.op = "upgradeResearch" ->
                state.coins < calculateResearchCost(state.research.level)
          [] op.op = "claimDailyReward" -> state.dailyRewards.availableReward = Null
          [] op.op = "plantSeed" ->
                state.coins < state.gardenOfGrowth.seedCost
                \/ state.gardenOfGrowth.isPlanted
          [] op.op = "rollSkill" -> state.coins < 100
          [] op.op = "equipRelic" ->
                \/ lacks("relics", arg[1])
                \/ Len(state.inventory.equippedRelics) >= 5
                \/ Find(state.inventory.equippedRelics, arg[1]) # Null
          [] op.op = "purchaseRelic" ->
                \/ Find(state.yojefMarket.items, arg[1]) = Null
                \/ state.gems < Find(state.yojefMarket.items, arg[1]).cost
                \/ Len(state.inventory.equippedRelics) >= 5
          [] OTHER -> FALSE

\* one dispatched call; a new state object makes the save effect due; the snapshot in
\* storage is written by the save effect only
Dispatch(next, op) ==
    /\ updateGameState(next)
    /\ lastOp' = op
    /\ saveDue' = (saveDue \/ (gameState # Null /\ ~returnsInput(gameState, op)))
    /\ UNCHANGED <<isLoading, storage, combats>>

\* ----------------------------------------------------------- combat actions

StartCombat ==
    \E offer \in Offerings :
        Dispatch(startCombatT(gameState, offer), Op("startCombat", <<>>, TRUE))

SelectAdventureSkill ==
    /\ gameState # Null
    /\ combats < MaxCombats
    /\ \E i \in 1..Len(allSkills), enemy \in Enemies, ramp \in CombatRampDraws :
        /\ allSkills[i].type # "ramp" => ramp = <<"atk", "def">>
        /\ gameState' = selectAdventureSkillT(gameState, allSkills[i], enemy, ramp)
        /\ lastOp' = Op("selectAdventureSkill", <<allSkills[i].type>>, TRUE)
    /\ combats' = combats + 1
    /\ saveDue' = TRUE
    /\ UNCHANGED <<isLoading, storage>>

\* selectAdventureSkill with the ramp skill, over every outcome of its draws
SelectRampSkill ==
    /\ gameState # Null
    /\ combats < MaxCombats
    /\ \E enemy \in Enemies, ramp \in RampDraws :
        /\ gameState' = selectAdventureSkillT(gameState, allSkills[6], enemy, ramp)
        /\ lastOp' = Op("selectAdventureSkill", <<allSkills[6].type>>, TRUE)
    /\ combats' = combats + 1
    /\ saveDue' = TRUE
    /\ UNCHANGED <<isLoading, storage>>

SkipAdventureSkills ==
    /\ gameState # Null
    /\ combats < MaxCombats
    /\ \E enemy \in Enemies : gameState' = skipAdventureSkillsT(gameState, enemy)
    /\ lastOp' = Op("skipAdventureSkills", <<>>, TRUE)
    /\ combats' = combats + 1
    /\ saveDue' = TRUE
    /\ UNCHANGED <<isLoading, storage>>

UseSkipCard == Dispatch(useSkipCardT(gameState), Op("useSkipCard", <<>>, TRUE))

\* attack(hit), no category given, while fewer than max questions were answered
AttackUpTo(max) ==
    /\ gameState # Null
    /\ gameState.statistics.totalQuestionsAnswered < max
    /\ \E hit \in BOOLEAN :
        Dispatch(attackT(gameState, hit, NoCategory), Op("attack", <<hit>>, TRUE))

Attack == AttackUpTo(MaxQuestions)

RewardAttack == AttackUpTo(MaxRewardQuestions)

JourneyAttack == AttackUpTo(MaxJourneyQuestions)

\* the categories the quiz passes to attack; the first stands for none
QuizCategories == {NoCategory, "math"}

\* attack(hit, category)
QuizAttack ==
    /\ gameState # Null
    /\ gameState.statistics.totalQuestionsAnswered < MaxJourneyQuestions
    /\ \E hit \in BOOLEAN, category \in QuizCategories :
        Dispatch(attackT(gameState, hit, category), Op("attack", <<hit, category>>, TRUE))

TeleportToZone ==
    \E zone \in TeleportZones :
        Dispatch(teleportToZoneT(gameState, zone), Op("teleportToZone", <<zone>>, TRUE))

\* resetGame sets the state directly, not through the dispatcher
ResetGame ==
    /\ gameState' = createInitialGameState
    /\ lastOp' = Op("resetGame", <<>>, TRUE)
    /\ combats' = 0
    /\ saveDue' = TRUE
    /\ UNCHANGED <<isLoading, storage>>

\* the state once the initial load has found no snapshot
InitFresh ==
    /\ gameState = createInitialGameState
    /\ isLoading = FALSE
    /\ storage = Null
    /\ lastOp = Op("loadGameState", <<>>, TRUE)
    /\ combats = 0
    /\ saveDue = TRUE

NextCombat ==
    \/ StartCombat
    \/ SelectAdventureSkill
    \/ SkipAdventureSkills
    \/ UseSkipCard
    \/ Attack
    \/ ResetGame

SpecCombat == InitFresh /\ [][NextCombat]_vars

\* victories and their rewards: any zone, streaks of up to MaxRewardQuestions
NextReward ==
    \/ TeleportToZone
    \/ SkipAdventureSkills
    \/ RewardAttack

SpecReward == InitFresh /\ [][NextReward]_vars

\* ---------------------------------------------------------- economy actions

Abs(x) == IF x < 0 THEN -x ELSE x

\* the states the economy actions explore
Bounded(state) ==
    /\ Abs(state.coins) <= MaxCoins
    /\ Abs(state.gems) <= MaxGems
    /\ Abs(state.shinyGems) <= MaxShinyGems
    /\ state.statistics.chestsOpened <= MaxChests
    /\ state.mining.totalGemsMined + state.mining.totalShinyGemsMined <= MaxMined
    /\ Abs(state.gardenOfGrowth.waterHoursRemaining) <= MaxWaterHours

\* one dispatched call whose result stays within the bounds
Commit(next, op) ==
    /\ gameState # Null => Bounded(next)
    /\ Dispatch(next, op)

\* arguments of the calls
CoinAmounts == {-150, 500}
GemAmounts == {-5, 5}
ExchangeAmounts == {-1, 1, 2}
WaterHours == {-24, 24}
ChestCosts == {50, 100}
MythicalCosts == {50}
\* Math.random() * 100, whole numbers only
ChestDraws == 0..99
\* Math.floor(Math.random() * 10) + 5
GemBonuses == {5}
ItemTypes == {"weapon", "armor"}

EquipWeapon ==
    /\ gameState # Null
    /\ \E i \in 1..Len(gameState.inventory.weapons) :
        LET weapon == gameState.inventory.weapons[i]
        IN  Commit(equipWeaponT(gameState, weapon), Op("equipWeapon", <<weapon.id>>, TRUE))

EquipArmor ==
    /\ gameState # Null
    /\ \E i \in 1..Len(gameState.inventory.armor) :
        LET armor == gameState.inventory.armor[i]
        IN  Commit(equipArmorT(gameState, armor), Op("equipArmor", <<armor.id>>, TRUE))

UpgradeWeapon ==
    \E id \in ItemIds :
        Commit(upgradeWeaponT(gameState, id), Op("upgradeWeapon", <<id>>, TRUE))

UpgradeArmor ==
    \E id \in ItemIds :
        Commit(upgradeArmorT(gameState, id), Op("upgradeArmor", <<id>>, TRUE))

SellWeapon ==
    \E id \in ItemIds :
        Commit(sellWeaponT(gameState, id), Op("sellWeapon", <<id>>, TRUE))

SellArmor ==
    \E id \in ItemIds :
        Commit(sellArmorT(gameState, id), Op("sellArmor", <<id>>, TRUE))

BulkSell ==
    \E itemIds \in SUBSET ItemIds, type \in ItemTypes :
        Commit(bulkSellT(gameState, itemIds, type), Op("bulkSell", <<itemIds, type>>, TRUE))

DiscardItem ==
    \E itemId \in ItemIds, type \in ItemTypes :
        Commit(discardItemT(gameState, itemId, type), Op("discardItem", <<itemId, type>>, TRUE))

BulkUpgrade ==
    \E itemIds \in SUBSET ItemIds, type \in ItemTypes :
        Commit(bulkUpgradeT(gameState, itemIds, type),
               Op("bulkUpgrade", <<itemIds, type>>, TRUE))

\* openChest(cost); the call returns the reward, null when the coins do not suffice
OpenChestFrom(costs, draws, bonuses) ==
    \E cost \in costs, random \in draws, isWeapon \in BOOLEAN, gemBonus \in bonuses :
        \E entry \in IF isWeapon THEN WeaponCatalog ELSE ArmorCatalog :
            /\ gameState # Null => entry.id \notin HeldIds(gameState)
            /\ Commit(openChestT(gameState, cost, random, isWeapon, entry, gemBonus),
                      Op("openChest", <<cost, random, isWeapon, entry.id>>,
                         gameState # Null /\ gameState.coins >= cost))

OpenChest == OpenChestFrom(ChestCosts, ChestDraws, GemBonuses)

\* chests of one price, one draw and one gem bonus
OpenCheapChest == OpenChestFrom({20}, {50}, {5})

PurchaseMythicalFrom(costs) ==
    \E cost \in costs, isWeapon \in BOOLEAN :
        \E entry \in IF isWeapon THEN WeaponCatalog ELSE ArmorCatalog :
            /\ gameState # Null => entry.id \notin HeldIds(gameState)
            /\ Commit(purchaseMythicalT(gameState, cost, isWeapon, entry),
                      Op("purchaseMythical", <<cost, isWeapon, entry.id>>,
                         gameState # Null /\ gameState.coins >= cost))

PurchaseMythical == PurchaseMythicalFrom(MythicalCosts)

\* chests and mythical items at the price of a seed
OpenDearChest == OpenChestFrom({1000}, {50}, {5})

PurchaseDearMythical == PurchaseMythicalFrom({1000})

AddCoinsOf(amounts) ==
    \E amount \in amounts :
        Commit(addCoinsT(gameState, amount), Op("addCoins", <<amount>>, TRUE))

AddCoins == AddCoinsOf(CoinAmounts)

\* addCoins with the one amount that pays for chests
FundCoins == AddCoinsOf({200})

AddGemsOf(amounts) ==
    \E amount \in amounts :
        Commit(addGemsT(gameState, amount), Op("addGems", <<amount>>, TRUE))

AddGems == AddGemsOf(GemAmounts)

\* addGems with the one amount that pays for upgrades
FundGems == AddGemsOf({5})

MineGem ==
    \E isShinyNode \in BOOLEAN :
        Commit(mineGemT(gameState, isShinyNode),
               Op("mineGem", <<isShinyNode>>, gameState # Null))

ExchangeShinyGems ==
    \E amount \in ExchangeAmounts :
        Commit(exchangeShinyGemsT(gameState, amount),
               Op("exchangeShinyGems", <<amount>>,
                  gameState # Null /\ gameState.shinyGems >= amount))

BuyWater ==
    \E hours \in WaterHours :
        Commit(buyWaterT(gameState, hours),
               Op("buyWater", <<hours>>,
                  gameState # Null
                  /\ gameState.coins >= (hours \div 24) * gameState.gardenOfGrowth.waterCost))

PurchaseRelicAmong(relicIds) ==
    \E relicId \in relicIds :
        Commit(purchaseRelicT(gameState, relicId),
               Op("purchaseRelic", <<relicId>>,
                  gameState # Null /\ purchaseRelicT(gameState, relicId) # gameState))

PurchaseRelic == PurchaseRelicAmong(RelicIds)

UpgradeRelic ==
    \E relicId \in RelicIds :
        Commit(upgradeRelicT(gameState, relicId), Op("upgradeRelic", <<relicId>>, TRUE))

EquipRelicAmong(relicIds) ==
    \E relicId \in relicIds :
        Commit(equipRelicT(gameState, relicId), Op("equipRelic", <<relicId>>, TRUE))

UnequipRelicAmong(relicIds) ==
    \E relicId \in relicIds :
        Commit(unequipRelicT(gameState, relicId), Op("unequipRelic", <<relicId>>, TRUE))

SellRelicAmong(relicIds) ==
    \E relicId \in relicIds :
        Commit(sellRelicT(gameState, relicId), Op("sellRelic", <<relicId>>, TRUE))

UpgradeResearch ==
    \E type \in {"atk", "def", "hp"} :
        Commit(upgradeResearchT(gameState), Op("upgradeResearch", <<type>>, TRUE))

ClaimDailyReward ==
    Commit(claimDailyRewardT(gameState),
           Op("claimDailyReward", <<>>,
              gameState # Null /\ gameState.dailyRewards.availableReward # Null))

PlantSeed ==
    Commit(plantSeedT(gameState),
           Op("plantSeed", <<>>,
              gameState # Null /\ plantSeedT(gameState) # gameState))

\* the types the model lets rollSkill draw
RollDraws == {"coin_vacuum", "luck_gem"}

RollSkill ==
    \E randomType \in RollDraws :
        Commit(rollSkillT(gameState, randomType),
               Op("rollSkill", <<randomType>>, gameState # Null /\ gameState.coins >= 100))

\* ------------------------------------------------------------------ startup

\* loadGameState: the effect of the first render, run once
LoadGameState ==
    /\ isLoading
    /\ gameState' = loadGameStateT(storage)
    /\ isLoading' = FALSE
    /\ lastOp' = Op("loadGameState", <<>>, TRUE)
    /\ saveDue' = TRUE
    /\ UNCHANGED <<storage, combats>>

\* loadGameState when AsyncStorage.getItem rejects: the catch branch
LoadGameStateReadError ==
    /\ isLoading
    /\ gameState' = createInitialGameState
    /\ isLoading' = FALSE
    /\ lastOp' = Op("loadGameStateReadError", <<>>, FALSE)
    /\ saveDue' = TRUE
    /\ UNCHANGED <<storage, combats>>

\* Date.prototype.toJSON: a date becomes its text; other values stay
toJSON(value) == IF value = Now THEN [text |-> "now"] ELSE value

\* toJSON of the claimDate of every entry of rewardHistory
HistoryJSON(history) ==
    [i \in 1..Len(history) |-> [history[i] EXCEPT !.claimDate = toJSON(@)]]

\* JSON.parse(JSON.stringify(state)): what the store holds after a write
serialize(state) ==
    [state EXCEPT !.skills.sessionStartTime = IF @ = "now" THEN "saved" ELSE @,
                  !.skills.lastRollTime = toJSON(@),
                  !.gardenOfGrowth.plantedAt = toJSON(@),
                  !.gardenOfGrowth.lastWatered = toJSON(@),
                  !.dailyRewards.lastClaimDate = toJSON(@),
                  !.dailyRewards.rewardHistory = HistoryJSON(@)]

SaveGameStateRetrying ==
    /\ saveDue
    /\ IF gameState # Null /\ ~isLoading
       THEN \E written \in BOOLEAN :
               /\ storage' = IF written THEN serialize(gameState) ELSE storage
               /\ lastOp' = Op("saveGameState", <<>>, written)
               /\ saveDue' = ~written
       ELSE /\ storage' = storage
            /\ lastOp' = Op("saveSkipped", <<>>, FALSE)
            /\ saveDue' = FALSE
    /\ UNCHANGED <<gameState, isLoading, combats>>

\* the auto-save effect, run once after the state or isLoading has changed; the write
\* of saveGameState succeeds or fails, and a failure is logged only
\* the save effect without its test of isLoading
SaveGameStateEager ==
    /\ saveDue
    /\ saveDue' = FALSE
    /\ IF gameState # Null
       THEN \E written \in BOOLEAN :
               /\ storage' = IF written THEN serialize(gameState) ELSE storage
               /\ lastOp' = Op("saveGameState", <<>>, written)
       ELSE /\ storage' = storage
            /\ lastOp' = Op("saveSkipped", <<>>, FALSE)
    /\ UNCHANGED <<gameState, isLoading, combats>>

SaveGameState ==
    /\ saveDue
    /\ saveDue' = FALSE
    /\ IF gameState # Null /\ ~isLoading
       THEN \E written \in BOOLEAN :
               /\ storage' = IF written THEN serialize(gameState) ELSE storage
               /\ lastOp' = Op("saveGameState", <<>>, written)
       ELSE /\ storage' = storage
            /\ lastOp' = Op("saveSkipped", <<>>, FALSE)
    /\ UNCHANGED <<gameState, isLoading, combats>>

\* the hook before its load has run, the store holding one of the snapshots; the
\* effects of the mount are due
InitLoading(snapshots) ==
    /\ gameState = Null
    /\ isLoading = TRUE
    /\ storage \in snapshots
    /\ lastOp = Op("useGameState", <<>>, TRUE)
    /\ combats = 0
    /\ saveDue = TRUE

\* the fields of a function that are in keys
Restrict(f, keys) == [k \in keys |-> f[k]]

\* top-level fields a stored snapshot may hold; legacyField is a field of an older
\* shape that the default state no longer has
SavedFields ==
    [coins |-> 250, zone |-> 7, hasUsedRevival |-> TRUE, legacyField |-> 1]

SavedMenuSkill == [id |-> "coin_vacuum", type |-> "coin_vacuum"]

\* what a snapshot holds under skills: nothing, an older shape, the full shape
SavedSkills ==
    {EmptyObject,
     [skills |-> [activeMenuSkill |-> SavedMenuSkill]],
     [skills |-> [activeMenuSkill |-> SavedMenuSkill, lastRollTime |-> Null,
                  playTimeThisSession |-> 60, sessionStartTime |-> "saved"]]}

\* what a snapshot holds under adventureSkills: nothing, an older shape, the full shape
SavedAdventureSkills ==
    {EmptyObject,
     [adventureSkills |-> [selectedSkill |-> Skill("dodge")]],
     [adventureSkills |->
        [selectedSkill |-> Skill("dodge"), availableSkills |-> <<>>,
         showSelectionModal |-> FALSE,
         skillEffects |-> [emptySkillEffects EXCEPT !.dodgeUsed = TRUE]]]}

\* the parsed snapshots the store may hold
Snapshots ==
    {Overlay(Overlay(Restrict(SavedFields, keys), skills), adventureSkills) :
        keys \in SUBSET DOMAIN SavedFields,
        skills \in SavedSkills,
        adventureSkills \in SavedAdventureSkills}

\* snapshots of a version whose skillEffects had fewer flags: the two first flags
\* only, one of them set
OlderSnapshots ==
    {Overlay(Restrict(SavedFields, {"coins"}),
             [adventureSkills |->
                [selectedSkill |-> selected, availableSkills |-> <<>>,
                 showSelectionModal |-> FALSE,
                 skillEffects |-> [skipCardUsed |-> used, metalShieldUsed |-> FALSE]]]) :
        selected \in {Null, Skill("skip_card")}, used \in BOOLEAN}

\* a relic as the market sells it
Relic(id, cost) ==
    [id |-> id, name |-> "Idol", cost |-> cost, level |-> 1, upgradeCost |-> 5,
     baseAtk |-> 30, baseDef |-> 0]

\* a snapshot written late in a game: seventeen levels of research bought, four relics
\* owned, three of them equipped, two more for sale, a daily reward waiting
LateGame ==
    [createInitialGameState EXCEPT
        !.coins = 1000, !.gems = 5, !.shinyGems = 1,
        !.research = [level |-> 17, totalSpent |-> 9350],
        !.statistics.totalResearchSpent = 9350,
        !.inventory.relics = <<Relic("r1", 2), Relic("r2", 2), Relic("r3", 2),
                               Relic("r4", 2)>>,
        !.inventory.equippedRelics = <<Relic("r1", 2), Relic("r2", 2), Relic("r3", 2)>>,
        !.yojefMarket.items = <<Relic("r5", 2), Relic("r6", 2)>>,
        !.dailyRewards.availableReward = [coins |-> 50, gems |-> 1]]

LateSnapshot == serialize(LateGame)

\* the relic ids the calls of the late game name; r9 is no relic
LateRelicIds == {"r4", "r5", "r6", "r9"}

PurchaseLateRelic == PurchaseRelicAmong(LateRelicIds)

EquipLateRelic == EquipRelicAmong(LateRelicIds)

\* the relic ids the unequip and sell calls name
PartedRelicIds == {"r1", "r5", "r9"}

UnequipRelic == UnequipRelicAmong(PartedRelicIds)

SellRelic == SellRelicAmong(PartedRelicIds)

\* a snapshot written while the market was stocked
MarketSnapshot == [gems |-> 4, yojefMarket |-> [items |-> MarketRelics]]

\* ------------------------------------------------------------ specifications

\* selling: chests fill the inventory, items are equipped, sold and discarded
NextSell ==
    \/ OpenCheapChest
    \/ EquipWeapon
    \/ EquipArmor
    \/ SellWeapon
    \/ SellArmor
    \/ BulkSell
    \/ DiscardItem

SpecSell == InitFresh /\ [][NextSell]_vars

\* upgrading: items come from chests and from the stocked market of a snapshot
NextUpgrade ==
    \/ LoadGameState
    \/ OpenCheapChest
    \/ FundGems
    \/ UpgradeWeapon
    \/ UpgradeArmor
    \/ BulkUpgrade
    \/ PurchaseRelic
    \/ UpgradeRelic

SpecUpgrade == InitLoading({MarketSnapshot}) /\ [][NextUpgrade]_vars

\* chests of every price and draw
NextChest ==
    \/ OpenChest
    \/ PurchaseMythical

SpecChest == InitFresh /\ [][NextChest]_vars

\* the currencies under the operations that only move currency
NextLedger ==
    \/ AddCoins
    \/ AddGems
    \/ MineGem
    \/ ExchangeShinyGems
    \/ BuyWater

SpecLedger == InitFresh /\ [][NextLedger]_vars

\* startup, play and the save effect, the store read and written
NextStartup ==
    \/ LoadGameState
    \/ LoadGameStateReadError
    \/ SaveGameState
    \/ ResetGame
    \/ FundCoins
    \/ ExchangeShinyGems
    \/ MineGem
    \/ PurchaseRelic

SpecStartup == InitLoading({Null, Corrupt, MarketSnapshot}) /\ [][NextStartup]_vars

\* combats with economy operations in between
NextJourney ==
    \/ StartCombat
    \/ SelectAdventureSkill
    \/ SkipAdventureSkills
    \/ JourneyAttack
    \/ ResetGame
    \/ RollSkill

SpecJourney == InitFresh /\ [][NextJourney]_vars

\* an enemy that takes three plain hits and leaves a fresh player two misses
Duelists == {[name |-> "Brute", hp |-> 50, atk |-> 60, def |-> 0]}

\* the skills that spend a flag to keep the player alive, and one that changes hp
DuelSkills == {Skill("dodge"), Skill("metal_shield"), Skill("risker")}

\* selectAdventureSkill against a duelist
FaceDuelist ==
    /\ gameState # Null
    /\ combats < MaxCombats
    /\ \E skill \in DuelSkills, enemy \in Duelists :
        /\ gameState' = selectAdventureSkillT(gameState, skill, enemy, <<"atk", "def">>)
        /\ lastOp' = Op("selectAdventureSkill", <<skill.type>>, TRUE)
    /\ combats' = combats + 1
    /\ saveDue' = TRUE
    /\ UNCHANGED <<isLoading, storage>>

\* attack for as long as a combat lasts
DuelAttack == AttackUpTo(MaxDuelQuestions)

\* combats fought to their end
NextDuel ==
    \/ FaceDuelist
    \/ DuelAttack

\* attack is called again for as long as the quiz has a question to ask
SpecDuel == InitFresh /\ [][NextDuel]_vars /\ WF_gameState(DuelAttack)

\* combats opened with the ramp skill, whatever it draws
NextRamp ==
    \/ SelectRampSkill
    \/ SkipAdventureSkills
    \/ JourneyAttack

SpecRamp == InitFresh /\ [][NextRamp]_vars

\* relics bought, equipped, unequipped, sold and upgraded
NextRelics ==
    \/ LoadGameState
    \/ FundGems
    \/ PurchaseLateRelic
    \/ EquipLateRelic
    \/ UnequipRelic
    \/ SellRelic
    \/ UpgradeRelic

SpecRelics == InitLoading({LateSnapshot}) /\ [][NextRelics]_vars

\* the two operations that write into the objects of their snapshot
NextAliasing ==
    \/ SkipAdventureSkills
    \/ JourneyAttack
    \/ OpenCheapChest

SpecAliasing == InitFresh /\ [][NextAliasing]_vars

\* answers with and without a category
NextQuiz ==
    \/ SelectAdventureSkill
    \/ SkipAdventureSkills
    \/ QuizAttack

SpecQuiz == InitFresh /\ [][NextQuiz]_vars

\* bulk operations on lists that hold the equipped item
NextBulk ==
    \/ OpenCheapChest
    \/ FundGems
    \/ EquipWeapon
    \/ EquipArmor
    \/ BulkSell
    \/ BulkUpgrade

SpecBulk == InitFresh /\ [][NextBulk]_vars

\* the guarded operations, their preconditions met and not met
NextGuards ==
    \/ LoadGameState
    \/ UpgradeWeapon
    \/ UpgradeArmor
    \/ UpgradeRelic
    \/ UpgradeResearch
    \/ OpenDearChest
    \/ PurchaseDearMythical
    \/ PurchaseLateRelic
    \/ EquipLateRelic
    \/ ExchangeShinyGems
    \/ PlantSeed
    \/ RollSkill
    \/ ClaimDailyReward

SpecGuards == InitLoading({LateSnapshot}) /\ [][NextGuards]_vars

\* startup from every snapshot
NextLoad ==
    \/ LoadGameState
    \/ ResetGame
    \/ FundCoins

SpecLoad == InitLoading(Snapshots \cup {Null, Corrupt}) /\ [][NextLoad]_vars

\* the load of snapshots of every age
SpecHydrate ==
    InitLoading(Snapshots \cup OlderSnapshots \cup {Null, Corrupt}) /\ [][NextLoad]_vars

\* startup to its end: the load effect runs once the hook is mounted, and the read of
\* the store resolves or rejects
NextBoot ==
    \/ LoadGameState
    \/ LoadGameStateReadError
    \/ SaveGameState
    \/ ResetGame
    \/ FundCoins

SpecBoot ==
    /\ InitLoading(Snapshots \cup {Null, Corrupt})
    /\ [][NextBoot]_vars
    /\ WF_vars(LoadGameState \/ LoadGameStateReadError)

\* ==================================================================== claims

\* the step just taken was attack(hit) applied while an enemy was present
AttackStep(hit) ==
    /\ lastOp'.op = "attack"
    /\ lastOp'.params[1] = hit
    /\ gameState.currentEnemy # Null

\* player hp after the damage phase of attack(hit), before the two checks
HpAfterDamage(state, hit) ==
    IF hit THEN state.playerStats.hp ELSE attackMiss(state, NoCategory).playerStats.hp

\* the metal shield is selected and not yet used
ShieldReady(state) ==
    /\ SkillType(state.adventureSkills.selectedSkill) = "metal_shield"
    /\ ~state.adventureSkills.skillEffects.metalShieldUsed

\* ---- C2
\* C2: in one game lifetime the free revival runs at most once: hasUsedRevival is
\* set by the revival branch of attack only, goes back to false by resetGame only,
\* statistics.revivals never exceeds 1, and once the flag is set a miss that leaves
\* hp <= 0 with no unused metal shield ends the combat and counts one death.
C2_Step ==
    LET s == gameState
        t == gameState'
    IN  /\ (s.hasUsedRevival /\ ~t.hasUsedRevival) => lastOp'.op = "resetGame"
        /\ (~s.hasUsedRevival /\ t.hasUsedRevival) =>
              /\ lastOp'.op = "attack"
              /\ t.statistics.revivals = s.statistics.revivals + 1
              /\ t.playerStats.hp = s.playerStats.maxHp
        /\ t.statistics.revivals # s.statistics.revivals =>
              \/ lastOp'.op = "resetGame"
              \/ ~s.hasUsedRevival /\ t.hasUsedRevival
        /\ t.statistics.revivals <= 1
        /\ (AttackStep(FALSE) /\ s.hasUsedRevival /\ HpAfterDamage(s, FALSE) <= 0
              /\ ~ShieldReady(s)) =>
              /\ ~t.inCombat
              /\ t.currentEnemy = Null
              /\ t.statistics.totalDeaths = s.statistics.totalDeaths + 1
              /\ t.hasUsedRevival

C2_RevivalAtMostOnce == [][C2_Step]_vars

\* C2 witness: the revival was used and a later lethal miss ended the combat
C2_Witness ==
    /\ lastOp.op = "attack"
    /\ lastOp.params[1] = FALSE
    /\ gameState.hasUsedRevival
    /\ gameState.statistics.revivals = 1
    /\ gameState.statistics.totalDeaths = 1
    /\ ~gameState.inCombat
    /\ gameState.currentEnemy = Null
    /\ gameState.playerStats.hp = 0

\* ---- C3
\* C3: in a combat with metal_shield selected, the first attack that leaves player
\* hp <= 0 fires the shield (hp 1, atk floor(atk * 0.7), metalShieldUsed, combat goes
\* on); every later attack of the combat that leaves hp <= 0 goes to the revival or
\* defeat branch and leaves atk alone; an attack that leaves hp > 0 fires nothing.
C3_Step ==
    LET s == gameState
        t == gameState'
        used == s.adventureSkills.skillEffects.metalShieldUsed
    IN  (\E hit \in BOOLEAN :
            /\ AttackStep(hit)
            /\ SkillType(s.adventureSkills.selectedSkill) = "metal_shield"
            /\ HpAfterDamage(s, hit) <= 0)
        => IF ~used
           THEN /\ t.playerStats.hp = 1
                /\ t.playerStats.atk = Floor07(s.playerStats.atk)
                /\ t.adventureSkills.skillEffects.metalShieldUsed
                /\ t.hasUsedRevival = s.hasUsedRevival
           ELSE /\ t.playerStats.atk = s.playerStats.atk
                /\ \/ ~s.hasUsedRevival /\ t.hasUsedRevival
                      /\ t.playerStats.hp = s.playerStats.maxHp
                   \/ s.hasUsedRevival /\ ~t.inCombat
                      /\ t.statistics.totalDeaths = s.statistics.totalDeaths + 1

C3_ShieldOncePerCombat == [][C3_Step]_vars

\* ---- C4
\* C4: with dodge selected, the first miss of the combat takes no hp and sets
\* dodgeUsed; the second miss takes max(1, enemy.atk - def) hp (floored at 0, after
\* which the revival or defeat branch may act); both misses reset the streak.
C4_Step ==
    LET s == gameState
        t == gameState'
        e == Max(1, s.currentEnemy.atk - s.playerStats.def)
        left == Max(0, s.playerStats.hp - e)
    IN  (AttackStep(FALSE) /\ SkillType(s.adventureSkills.selectedSkill) = "dodge")
        => /\ t.knowledgeStreak.current = 0
           /\ t.knowledgeStreak.multiplier = 10
           /\ IF ~s.adventureSkills.skillEffects.dodgeUsed
              THEN /\ t.playerStats.hp >= s.playerStats.hp
                   /\ t.adventureSkills.skillEffects.dodgeUsed
              ELSE IF left > 0
                   THEN t.playerStats.hp = left
                   ELSE t.playerStats.hp \in {0, s.playerStats.maxHp}

C4_DodgeFirstMissOnly == [][C4_Step]_vars

\* ---- C5
\* the streak fields agree: multiplier = 1 + current * 0.1 (in tenths), best >= current
StreakConsistent(state) ==
    /\ state.knowledgeStreak.multiplier = 10 + state.knowledgeStreak.current
    /\ state.knowledgeStreak.best >= state.knowledgeStreak.current

\* a hit applied with an enemy present adds one to the streak and keeps best the
\* running maximum, so N hits in a row from 0 give current = N, multiplier 1 + N * 0.1
StreakHit ==
    AttackStep(TRUE) =>
        /\ gameState'.knowledgeStreak.current = gameState.knowledgeStreak.current + 1
        /\ gameState'.knowledgeStreak.best =
              Max(gameState.knowledgeStreak.best, gameState'.knowledgeStreak.current)

\* the streak changes in attack (and resetGame) only
StreakFrame ==
    gameState'.knowledgeStreak # gameState.knowledgeStreak =>
        lastOp'.op \in {"attack", "resetGame"}

\* C5 as claimed: every attack(hit=false) call, an enemy present or not, resets
\* the streak to 0 and the multiplier to 1
C5_Original ==
    [][/\ StreakConsistent(gameState')
       /\ StreakHit
       /\ (lastOp'.op = "attack" /\ lastOp'.params[1] = FALSE) =>
             /\ gameState'.knowledgeStreak.current = 0
             /\ gameState'.knowledgeStreak.multiplier = 10]_vars

\* C5 (amended): in every state multiplier = 1 + current * 0.1 and best >= current;
\* a hit applied while an enemy is present adds one to current; a miss applied while
\* an enemy is present sets current to 0 and multiplier to 1; an attack with no enemy
\* leaves the streak as it is.
C5_Streak ==
    [][/\ StreakConsistent(gameState')
       /\ StreakHit
       /\ StreakFrame
       /\ AttackStep(FALSE) =>
             /\ gameState'.knowledgeStreak.current = 0
             /\ gameState'.knowledgeStreak.multiplier = 10
       /\ (lastOp'.op = "attack" /\ gameState.currentEnemy = Null) =>
             gameState'.knowledgeStreak = gameState.knowledgeStreak]_vars

\* C5 witness: three hits in a row from a streak of 0
C5_Witness ==
    /\ lastOp.op = "attack"
    /\ lastOp.params[1] = TRUE
    /\ gameState.statistics.totalQuestionsAnswered = 3
    /\ gameState.statistics.correctAnswers = 3
    /\ gameState.knowledgeStreak.current = 3
    /\ gameState.knowledgeStreak.multiplier = 13
    /\ gameState.knowledgeStreak.best = 3

\* ---- C6
\* C6: when an attack leaves enemy hp <= 0, coins grow by floor((10 + zone * 2) * m)
\* and gems by floor((1 + floor(zone / 5)) * m), zone the zone before the victory and
\* m the multiplier that already counts the killing hit; zone grows by exactly 1 and
\* the combat ends.  (floor of the double product, as the code computes it.)
C6_Step ==
    LET s == gameState
        t == gameState'
        m == 10 + s.knowledgeStreak.current + 1
    IN  (AttackStep(TRUE) /\ attackHit(s, NoCategory).currentEnemy.hp <= 0)
        => /\ t.coins = s.coins + FloorTimesMultiplier(10 + s.zone * 2, m)
           /\ t.gems = s.gems + FloorTimesMultiplier(1 + (s.zone \div 5), m)
           /\ t.zone = s.zone + 1
           /\ ~t.inCombat
           /\ t.currentEnemy = Null
           /\ t.statistics.totalVictories = s.statistics.totalVictories + 1

\* coins, gems and zone move in this specification by a victory or a teleport only
C6_Frame ==
    /\ (gameState'.coins # gameState.coins \/ gameState'.gems # gameState.gems)
          => gameState'.statistics.totalVictories = gameState.statistics.totalVictories + 1
    /\ gameState'.statistics.totalVictories # gameState.statistics.totalVictories
          => AttackStep(TRUE) /\ attackHit(gameState, NoCategory).currentEnemy.hp <= 0

C6_VictoryReward == [][C6_Step /\ C6_Frame]_vars

\* C6 witness: the example, a victory in zone 10 with a streak of 5 (m = 1.5):
\* 45 coins and 4 gems
C6_Witness ==
    /\ lastOp.op = "attack"
    /\ gameState.zone = 11
    /\ gameState.knowledgeStreak.current = 5
    /\ gameState.statistics.totalVictories = 1
    /\ gameState.coins = 100 + 45
    /\ gameState.gems = 4
    /\ ~gameState.inCombat
    /\ gameState.currentEnemy = Null

\* ---- C1

\* C1: in every reachable state coins, gems and shinyGems are each at least 0,
\* whatever operations were called and with whatever arguments
C1_CurrenciesNonNegative ==
    gameState # Null =>
        /\ gameState.coins >= 0
        /\ gameState.gems >= 0
        /\ gameState.shinyGems >= 0

\* ---- C7

SellOps == {"sellWeapon", "sellArmor", "bulkSell"}

\* the items of the list before the step that are not in it after the step
Removed(list) ==
    LET gone(w) == w \notin Range(gameState'.inventory[list])
    IN  SelectSeq(gameState.inventory[list], gone)

\* the inventory item with the id of the equipped one is in the list after the step
EquippedKept(list, current) ==
    \A w \in Range(gameState.inventory[list]) :
        IsEquipped(gameState.inventory[current], w.id) =>
            w \in Range(gameState'.inventory[list])

C7_Step ==
    lastOp'.op \in SellOps =>
        /\ EquippedKept("weapons", "currentWeapon")
        /\ EquippedKept("armor", "currentArmor")
        /\ gameState'.inventory.currentWeapon = gameState.inventory.currentWeapon
        /\ gameState'.inventory.currentArmor = gameState.inventory.currentArmor
        /\ gameState'.coins = gameState.coins + SumField(Removed("weapons"), "sellPrice")
                                              + SumField(Removed("armor"), "sellPrice")

\* C7: a sellWeapon, sellArmor or bulkSell call with any ids leaves the inventory item
\* whose id is that of the equipped weapon (armor) in the list, and the coins it
\* credits are the sell prices of the items it removed, the equipped one not among them
C7_EquippedNeverSold == [][C7_Step]_vars

\* a bulkSell naming both weapons sold the Axe and kept the equipped Sword
C7_Witness ==
    /\ lastOp.op = "bulkSell"
    /\ lastOp.params[1] = {"w1", "w2"}
    /\ lastOp.params[2] = "weapon"
    /\ IsEquipped(gameState.inventory.currentWeapon, "w1")
    /\ Len(gameState.inventory.weapons) = 1
    /\ gameState.inventory.weapons[1].id = "w1"
    /\ gameState.statistics.itemsSold = 0
    /\ gameState.statistics.chestsOpened = 2
    /\ gameState.coins = 100 - 20 - 20 + 25

\* ---- C8

UpgradeOps == {"upgradeWeapon", "upgradeArmor", "upgradeRelic", "bulkUpgrade"}

ItemLists == {"weapons", "armor", "relics"}

\* the upgradeCost an item has when it is acquired
InitialCost(id) ==
    IF id \in ItemIds
    THEN (CHOOSE e \in WeaponCatalog \cup ArmorCatalog : e.id = id).upgradeCost
    ELSE (CHOOSE r \in Range(MarketRelics) : r.id = id).upgradeCost

\* the k-fold iterate of c -> floor(c * 1.5)
RECURSIVE IterateCost(_, _)
IterateCost(c, k) == IF k = 0 THEN c ELSE IterateCost(c + (c \div 2), k - 1)

\* every held item's cost is the iterate of its initial cost, once per level gained
CostLaw(state) ==
    \A list \in ItemLists : \A w \in Range(state.inventory[list]) :
        /\ w.level >= 1
        /\ w.upgradeCost = IterateCost(InitialCost(w.id), w.level - 1)

\* the items of the list the step has raised by one level
Raised(list) ==
    LET up(w) == \E n \in Range(gameState'.inventory[list]) :
                    n.id = w.id /\ n.level = w.level + 1
    IN  SelectSeq(gameState.inventory[list], up)

\* the item the call names is held and its cost is covered
Affordable(list, id) ==
    \E w \in Range(gameState.inventory[list]) :
        w.id = id /\ gameState.gems >= w.upgradeCost

C8_Step ==
    /\ gameState' # Null => CostLaw(gameState')
    /\ gameState # Null =>
        /\ \A list \in ItemLists :
            /\ Len(gameState'.inventory[list]) >= Len(gameState.inventory[list])
            /\ \A i \in 1..Len(gameState.inventory[list]) :
                LET old == gameState.inventory[list][i]
                    new == gameState'.inventory[list][i]
                IN  /\ new.id = old.id
                    /\ new.level \in {old.level, old.level + 1}
                    /\ new.level # old.level => lastOp'.op \in UpgradeOps
        /\ lastOp'.op \in UpgradeOps =>
            gameState'.gems = gameState.gems
                              - SumField(Raised("weapons"), "upgradeCost")
                              - SumField(Raised("armor"), "upgradeCost")
                              - SumField(Raised("relics"), "upgradeCost")
        /\ lastOp'.op = "upgradeWeapon" /\ Affordable("weapons", lastOp'.params[1]) =>
            Len(Raised("weapons")) = 1
        /\ lastOp'.op = "upgradeArmor" /\ Affordable("armor", lastOp'.params[1]) =>
            Len(Raised("armor")) = 1
        /\ lastOp'.op = "upgradeRelic" /\ Affordable("relics", lastOp'.params[1]) =>
            Len(Raised("relics")) = 1

\* C8: an item k levels above the level it was acquired at costs the k-fold iterate of
\* c -> floor(c * 1.5) of its initial cost; a level is gained only by an upgrade, one
\* at a time, and the upgrade takes the sum of the pre-upgrade costs of the items it
\* raised from gems
C8_UpgradeCost == [][C8_Step]_vars

\* a Sword upgraded twice costs 10 (5 -> 7 -> 10, not floor(5 * 2.25) = 11), next to
\* an upgraded relic
C8_Witness ==
    /\ gameState # Null
    /\ lastOp.op \in UpgradeOps
    /\ \E w \in Range(gameState.inventory.weapons) :
        w.id = "w1" /\ w.level = 3 /\ w.upgradeCost = 10
    /\ \E r \in Range(gameState.inventory.relics) :
        r.level = 2 /\ r.upgradeCost = 7

\* ---- C9

\* weights[1] + ... + weights[i]
RECURSIVE CumulativeWeight(_, _)
CumulativeWeight(weights, i) ==
    IF i = 0 THEN 0 ELSE weights[i] + CumulativeWeight(weights, i - 1)

\* the first index whose cumulative weight reaches the draw
FirstIndex(weights, draw) ==
    CHOOSE i \in 1..Len(weights) :
        /\ CumulativeWeight(weights, i) >= draw
        /\ \A j \in 1..(i - 1) : CumulativeWeight(weights, j) < draw

\* the item a successful openChest has appended
ChestItem(state, isWeapon) ==
    LET list == state.inventory[IF isWeapon THEN "weapons" ELSE "armor"]
    IN  list[Len(list)]

C9_Step ==
    lastOp'.op = "openChest" /\ lastOp'.ok =>
        LET weights == ChestRarityWeights(lastOp'.params[1])
            draw == lastOp'.params[2]
            rarity == ChestItem(gameState', lastOp'.params[3]).rarity
        IN  /\ rarity = rarities[FirstIndex(weights, draw)]
            /\ weights = <<70, 20, 7, 2, 1>> /\ draw = 71 => rarity = "rare"
            /\ weights = <<70, 20, 7, 2, 1>> /\ draw = 70 => rarity = "common"

\* C9: the item of an opened chest has the rarity at the first index, in the order
\* common, rare, epic, legendary, mythical, whose cumulative weight is at least the
\* draw; with the weights 70, 20, 7, 2, 1 the draw 71 gives rare and the draw 70 common
C9_ChestRarity == [][C9_Step]_vars

\* a chest with the weights 70, 20, 7, 2, 1 and the draw 71 gave a rare item
C9_Witness ==
    /\ lastOp.op = "openChest"
    /\ lastOp.ok
    /\ lastOp.params[1] = 50
    /\ lastOp.params[2] = 71
    /\ ChestItem(gameState, lastOp.params[3]).rarity = "rare"
    /\ gameState.collectionBook.rarityStats.rare = 1

\* ---- C10

\* the store holds a parsed snapshot
IsSnapshot(saved) == saved # Null /\ saved # Corrupt

\* the step is the load of a snapshot that has no adventureSkills field
LoadsWithoutAdventureSkills ==
    /\ lastOp'.op = "loadGameState"
    /\ IsSnapshot(storage)
    /\ "adventureSkills" \notin DOMAIN storage

DefaultAdventureSkills ==
    [selectedSkill |-> Null, availableSkills |-> <<>>, showSelectionModal |-> FALSE,
     skillEffects |-> [skipCardUsed |-> FALSE, metalShieldUsed |-> FALSE,
                       dodgeUsed |-> FALSE, truthLiesActive |-> FALSE,
                       lightningChainActive |-> FALSE, rampActive |-> FALSE]]

\* the claim as stated: every field of the snapshot is the field of the state
C10_OriginalStep ==
    LoadsWithoutAdventureSkills =>
        /\ gameState'.adventureSkills = DefaultAdventureSkills
        /\ \A k \in DOMAIN storage : gameState'[k] = storage[k]

C10_Original == [][C10_OriginalStep]_vars

C10_Step ==
    LoadsWithoutAdventureSkills =>
        /\ gameState'.adventureSkills = DefaultAdventureSkills
        /\ DOMAIN gameState' = DOMAIN createInitialGameState \cup DOMAIN storage
        /\ \A k \in DOMAIN storage \ {"skills"} : gameState'[k] = storage[k]
        /\ \A k \in DOMAIN createInitialGameState \ DOMAIN storage :
            gameState'[k] = createInitialGameState[k]
        /\ "skills" \in DOMAIN storage =>
            /\ DOMAIN gameState'.skills =
                   DOMAIN createInitialGameState.skills \cup DOMAIN storage.skills
            /\ \A f \in DOMAIN gameState'.skills :
                gameState'.skills[f] = IF f \in DOMAIN storage.skills
                                       THEN storage.skills[f]
                                       ELSE createInitialGameState.skills[f]

\* C10: loading a snapshot that has no adventureSkills field gives a state whose
\* adventureSkills is the default; every top-level field of the snapshot other than
\* skills is the state's field, every field the snapshot lacks is the default's, and
\* skills is the default skills with the snapshot's skills fields laid over it
C10_Hydration == [][C10_Step]_vars

\* a snapshot with coins, an older-shape skills and no adventureSkills was loaded
C10_Witness ==
    /\ lastOp.op = "loadGameState"
    /\ IsSnapshot(storage)
    /\ "adventureSkills" \notin DOMAIN storage
    /\ "coins" \in DOMAIN storage
    /\ "skills" \in DOMAIN storage
    /\ DOMAIN storage.skills = {"activeMenuSkill"}
    /\ gameState.coins = 250
    /\ gameState.skills.activeMenuSkill = SavedMenuSkill
    /\ gameState.skills.playTimeThisSession = 0
    /\ gameState.adventureSkills = DefaultAdventureSkills

\* ---- C11

\* the steps that do not go through the dispatcher
UndispatchedOps ==
    {"useGameState", "loadGameState", "loadGameStateReadError", "saveGameState",
     "saveSkipped", "resetGame"}

\* the operations that return a result to the caller
ResultOps ==
    {"openChest", "purchaseMythical", "mineGem", "exchangeShinyGems", "purchaseRelic",
     "claimDailyReward", "plantSeed", "buyWater", "rollSkill"}

C11_Step ==
    gameState = Null /\ lastOp'.op \notin UndispatchedOps =>
        /\ gameState' = Null
        /\ lastOp'.op \in ResultOps => ~lastOp'.ok
        /\ UNCHANGED <<isLoading, storage, saveDue>>

\* C11: an operation dispatched while the state is absent leaves it absent, and an
\* operation with a result reports its unsuccessful value
C11_AbsentStateNoOp == [][C11_Step]_vars

\* a relic the stored gems would pay for was asked for before the load: nothing bought
C11_Witness ==
    /\ gameState = Null
    /\ isLoading
    /\ storage = MarketSnapshot
    /\ lastOp.op = "purchaseRelic"
    /\ lastOp.params[1] = "r1"
    /\ ~lastOp.ok

\* ---- C12

\* the combat of the state before the step is still on after it
CombatContinues ==
    /\ gameState'.inCombat = gameState.inCombat
    /\ gameState'.currentEnemy # Null

C12_Step ==
    LET s == gameState
        t == gameState'
    IN  (\E hit \in BOOLEAN : AttackStep(hit) /\ HpAfterDamage(s, hit) <= 0) =>
            IF ShieldReady(s)
            THEN /\ t.playerStats.hp = 1
                 /\ t.adventureSkills.skillEffects.metalShieldUsed
                 /\ t.hasUsedRevival = s.hasUsedRevival
                 /\ t.statistics.revivals = s.statistics.revivals
                 /\ t.statistics.totalDeaths = s.statistics.totalDeaths
                 /\ CombatContinues
            ELSE IF ~s.hasUsedRevival
            THEN /\ t.playerStats.hp = s.playerStats.maxHp
                 /\ t.hasUsedRevival
                 /\ t.playerStats.atk = s.playerStats.atk
                 /\ t.statistics.revivals = s.statistics.revivals + 1
                 /\ t.statistics.totalDeaths = s.statistics.totalDeaths
                 /\ CombatContinues
            ELSE /\ ~t.inCombat
                 /\ t.currentEnemy = Null
                 /\ t.adventureSkills = emptyAdventureSkills
                 /\ t.statistics.totalDeaths = s.statistics.totalDeaths + 1
                 /\ t.statistics.revivals = s.statistics.revivals

\* C12: an attack that leaves player hp <= 0 runs exactly one branch of the defeat
\* chain: the shield branch alone when metal_shield is selected and unused (the revival
\* is kept, combat goes on); else the revival when it is unused (hp = maxHp,
\* hasUsedRevival set, combat goes on); else the defeat (combat over, adventureSkills
\* reset to the empty default, totalDeaths + 1)
C12_DefeatChain == [][C12_Step]_vars

\* ---- C13

\* the items, relics or offers of a list that carry the id
Named(list, id) == {x \in Range(list) : x.id = id}

\* no entry of the list carries the id, or one that does costs more than the gems held
UnknownOrUnaffordable(state, list, id, field) ==
    \/ Named(list, id) = {}
    \/ \E x \in Named(list, id) : state.gems < x[field]

\* the precondition of a guarded operation does not hold in the state
PreconditionFails(state, op) ==
    LET arg == op.params
        equipped == state.inventory.equippedRelics
    IN  \/ /\ op.op = "upgradeWeapon"
           /\ UnknownOrUnaffordable(state, state.inventory.weapons, arg[1], "upgradeCost")
        \/ /\ op.op = "upgradeArmor"
           /\ UnknownOrUnaffordable(state, state.inventory.armor, arg[1], "upgradeCost")
        \/ /\ op.op = "upgradeRelic"
           /\ UnknownOrUnaffordable(state, state.inventory.relics, arg[1], "upgradeCost")
        \/ /\ op.op = "upgradeResearch"
           /\ state.coins < calculateResearchCost(state.research.level)
        \/ /\ op.op \in {"openChest", "purchaseMythical"}
           /\ state.coins < arg[1]
        \/ /\ op.op = "purchaseRelic"
           /\ \/ UnknownOrUnaffordable(state, state.yojefMarket.items, arg[1], "cost")
              \/ Len(equipped) >= 5
        \/ /\ op.op = "equipRelic"
           /\ \/ Named(state.inventory.relics, arg[1]) = {}
              \/ Len(equipped) >= 5
              \/ Named(equipped, arg[1]) # {}
        \/ /\ op.op = "exchangeShinyGems"
           /\ state.shinyGems < arg[1]
        \/ /\ op.op = "plantSeed"
           /\ \/ state.coins < state.gardenOfGrowth.seedCost
              \/ state.gardenOfGrowth.isPlanted
        \/ /\ op.op = "rollSkill"
           /\ state.coins < 100
        \/ /\ op.op = "claimDailyReward"
           /\ state.dailyRewards.availableReward = Null

C13_Step ==
    gameState # Null /\ PreconditionFails(gameState, lastOp') =>
        /\ gameState' = gameState
        /\ lastOp'.op \in ResultOps => ~lastOp'.ok

\* C13: a guarded operation whose precondition does not hold returns the committed state
\* unchanged, and reports failure when it has a result
C13_GuardedNoOp == [][C13_Step]_vars

\* a relic on sale that the gems held pay for was refused: five relics are equipped
C13_Witness ==
    /\ gameState # Null
    /\ lastOp.op = "purchaseRelic"
    /\ ~lastOp.ok
    /\ Len(gameState.inventory.equippedRelics) = 5
    /\ \E relic \in Named(gameState.yojefMarket.items, lastOp.params[1]) :
            gameState.gems >= relic.cost

\* ---- C14

\* the single-item operation applied to each of the items in turn
RECURSIVE OneByOne(_, _, _, _, _)
OneByOne(state, items, list, current, name) ==
    IF items = <<>> THEN state
    ELSE LET single == IF name = "bulkSell"
                       THEN sellItemT(state, list, current, Head(items).id)
                       ELSE upgradeItemT(state, list, current, Head(items).id)
         IN  OneByOne(single, Tail(items), list, current, name)

C14_Step ==
    LET op == lastOp'
        list == IF op.params[2] = "weapon" THEN "weapons" ELSE "armor"
        current == IF op.params[2] = "weapon" THEN "currentWeapon" ELSE "currentArmor"
        others(w) == w.id \in op.params[1] /\ ~IsEquipped(gameState.inventory[current], w.id)
        items == SelectSeq(gameState.inventory[list], others)
        expected == OneByOne(gameState, items, list, current, op.op)
    IN  /\ gameState # Null
        /\ op.op \in {"bulkSell", "bulkUpgrade"}
        /\ op.op = "bulkUpgrade" => gameState.gems >= SumField(items, "upgradeCost")
        => /\ gameState'.inventory = expected.inventory
           /\ gameState'.coins = expected.coins
           /\ gameState'.gems = expected.gems

\* C14: a bulk operation leaves the equipped item of the slot as it is and charges
\* nothing for it; every other listed item, when the gems pay for all of them, ends as
\* the single-item operation would leave it
C14_BulkExcludesEquipped == [][C14_Step]_vars

\* ---- C15

\* C15: an enemy is present exactly when a combat is on
C15_EnemyIffInCombat ==
    gameState # Null => ((gameState.currentEnemy # Null) <=> gameState.inCombat)

\* a missed attack was survived by the free revival: the combat and its enemy are still
\* there, and a skill was rolled in between
C15_Witness ==
    /\ gameState # Null
    /\ gameState.inCombat
    /\ gameState.currentEnemy # Null
    /\ gameState.hasUsedRevival
    /\ gameState.skills.activeMenuSkill # Null
    /\ lastOp = Op("attack", <<FALSE>>, TRUE)

\* ---- C16

StatsInRange ==
    gameState # Null =>
        /\ gameState.playerStats.hp <= gameState.playerStats.maxHp
        /\ gameState.playerStats.atk >= 0
        /\ gameState.playerStats.def >= 0

BaseStatsKept ==
    gameState # Null /\ gameState' # Null /\ lastOp'.op # "resetGame" =>
        /\ gameState'.playerStats.baseAtk = gameState.playerStats.baseAtk
        /\ gameState'.playerStats.baseDef = gameState.playerStats.baseDef
        /\ gameState'.playerStats.baseHp = gameState.playerStats.baseHp

\* C16: hp never exceeds maxHp, atk and def are never negative, and no operation other
\* than resetGame changes baseAtk, baseDef or baseHp
C16_PlayerStats == []StatsInRange /\ [][BaseStatsKept]_vars

\* ---- C17

\* the ids of a list, one entry at a time
IdsOf(list) == [i \in 1..Len(list) |-> list[i].id]

NoRepeat(seq) == \A i, j \in 1..Len(seq) : seq[i] = seq[j] => i = j

\* C17: at most five relics are equipped, no id twice, each of them owned; the relic
\* just upgraded has the level and the upgrade cost of its owned copy
C17_EquippedRelics ==
    gameState # Null =>
        LET relics == gameState.inventory.relics
            equipped == gameState.inventory.equippedRelics
        IN  /\ Len(equipped) <= 5
            /\ NoRepeat(IdsOf(equipped))
            /\ \A e \in Range(equipped) : \E r \in Range(relics) : r.id = e.id
            /\ lastOp.op = "upgradeRelic" =>
                    \A e \in Range(equipped), r \in Range(relics) :
                        e.id = lastOp.params[1] /\ r.id = e.id =>
                            e.level = r.level /\ e.upgradeCost = r.upgradeCost

\* five relics are equipped, and the upgrade of one of them has just raised both of
\* its copies
C17_Witness ==
    /\ gameState # Null
    /\ Len(gameState.inventory.equippedRelics) = 5
    /\ lastOp.op = "upgradeRelic"
    /\ \E e \in Range(gameState.inventory.equippedRelics) :
            e.id = lastOp.params[1] /\ e.level = 2

\* ---- C18

\* the snapshot the step's transform was given, as the transform leaves it, and the
\* result of giving it to the same transform with the same draws once more
C18_Step ==
    LET arg == lastOp'.params
        entry == CHOOSE e \in WeaponCatalog \cup ArmorCatalog : e.id = arg[4]
        gemBonus == gameState'.gems - gameState.gems
    IN  /\ gameState # Null /\ lastOp'.op = "attack" =>
            LET left == attackInput(gameState, arg[1], NoCategory)
            IN  /\ left = gameState
                /\ attackT(left, arg[1], NoCategory) = gameState'
        /\ gameState # Null /\ lastOp'.op = "openChest" =>
            LET left == openChestInput(gameState, arg[1], arg[2], arg[3], entry)
            IN  /\ left = gameState
                /\ openChestT(left, arg[1], arg[2], arg[3], entry, gemBonus) = gameState'

\* C18: attack and openChest leave the snapshot they are given with the values it had,
\* and give the same result when they are applied to it once more
C18_Pure == [][C18_Step]_vars

\* ---- C19

\* the step is a write of the save effect, and it failed
WriteFailed == lastOp'.op = "saveGameState" /\ ~lastOp'.ok

\* the step is a call of an operation through the dispatcher
Dispatched == lastOp'.op \notin UndispatchedOps

C19_Step ==
    /\ WriteFailed =>
            /\ gameState' = gameState
            /\ storage' = storage
            /\ ~saveDue'
    /\ lastOp'.op = "saveGameState" /\ lastOp'.ok =>
            /\ gameState' = gameState
            /\ storage' = serialize(gameState')
    /\ storage' # storage => saveDue /\ lastOp'.op = "saveGameState"
    /\ Dispatched /\ gameState' # gameState => saveDue'
    /\ Dispatched /\ gameState' = gameState => saveDue' = saveDue

\* C19: a failed write leaves the committed state as it is and is not tried again; a
\* write that succeeds stores the whole committed state of that moment; a call that
\* changes the state makes a write due, and a call that returns the state unchanged
\* does not
C19_SaveFailure == [][C19_Step]_vars

\* a write has failed: the state holds a relic that the stored snapshot still offers,
\* and no other write is due
C19_Witness ==
    /\ gameState # Null
    /\ lastOp = Op("saveGameState", <<>>, FALSE)
    /\ ~saveDue
    /\ storage = MarketSnapshot
    /\ Len(gameState.inventory.relics) = 1

\* ---- C20

\* the load has ended
Started == gameState # Null /\ ~isLoading

\* the step is the load, and the read or the parse of the stored text failed
LoadFailed ==
    /\ isLoading
    /\ ~isLoading'
    /\ storage = Corrupt \/ lastOp'.op = "loadGameStateReadError"

C20_Step == LoadFailed => gameState' = createInitialGameState /\ ~isLoading'

\* C20: a load whose read or parse fails sets the default state and ends the loading;
\* whatever the store holds, the state is eventually there and the loading over
C20_StartupCompletes == [][C20_Step]_vars /\ <>Started

\* the stored text did not parse, the state is the default one, and the game goes on
C20_Witness ==
    /\ Started
    /\ storage = Corrupt
    /\ lastOp.op = "addCoins"
    /\ gameState.coins = createInitialGameState.coins + 200

\* ---- C21

\* the counters of a category, a category not yet seen counting as 0 of 0
Accuracy(state, category) ==
    IF category \in DOMAIN state.statistics.accuracyByCategory
    THEN state.statistics.accuracyByCategory[category]
    ELSE [correct |-> 0, total |-> 0]

\* max(1, a - b), raised by percent / 100 and floored when the lightning chain is on
Damage(state, a, b, percent) ==
    LET plain == IF a - b >= 1 THEN a - b ELSE 1
    IN  IF state.adventureSkills.skillEffects.lightningChainActive
        THEN (plain * percent) \div 100
        ELSE plain

C21_Step ==
    LET s == gameState
        t == gameState'
        category == lastOp'.params[2]
        d == Damage(s, s.playerStats.atk, s.currentEnemy.def, 115)
        left == IF s.currentEnemy.hp - d >= 0 THEN s.currentEnemy.hp - d ELSE 0
    IN  AttackStep(TRUE) =>
            /\ t.currentEnemy # Null => t.currentEnemy.hp = left
            /\ t.statistics.totalVictories = s.statistics.totalVictories + 1 <=> left = 0
            /\ t.playerStats.hp >= s.playerStats.hp
            /\ t.statistics.totalDamageDealt = s.statistics.totalDamageDealt + d
            /\ category # NoCategory =>
                    /\ Accuracy(t, category).correct = Accuracy(s, category).correct + 1
                    /\ Accuracy(t, category).total = Accuracy(s, category).total + 1

\* C21: a right answer with an enemy present takes d from the enemy's hp, not below 0,
\* d being max(1, atk - def) and with the lightning chain floor(1.15 times that); the
\* player's hp does not fall, totalDamageDealt grows by d, and a category given has one
\* more correct answer and one more answer in all
C21_Hit == [][C21_Step]_vars

\* a right answer in a category under the lightning chain: 23 of the ogre's 100 hp gone
C21_Witness ==
    /\ lastOp.op = "attack"
    /\ lastOp.params = <<TRUE, "math">>
    /\ gameState.adventureSkills.skillEffects.lightningChainActive
    /\ gameState.currentEnemy # Null
    /\ gameState.currentEnemy.hp = 77
    /\ gameState.statistics.totalDamageDealt = 23
    /\ Accuracy(gameState, "math") = [correct |-> 1, total |-> 1]

\* ---- C22

\* a dodge is selected and not yet used
DodgeReady(state) ==
    /\ SkillType(state.adventureSkills.selectedSkill) = "dodge"
    /\ ~state.adventureSkills.skillEffects.dodgeUsed

\* player hp once a wrong answer has taken the enemy's damage from it
HpLeft(state) ==
    LET e == Damage(state, state.currentEnemy.atk, state.playerStats.def, 110)
    IN  IF state.playerStats.hp - e >= 0 THEN state.playerStats.hp - e ELSE 0

\* what a wrong answer does apart from the player's hp
MissCounts ==
    LET s == gameState
        t == gameState'
        category == lastOp'.params[2]
    IN  /\ AttackStep(FALSE) =>
            /\ t.currentEnemy # Null => t.currentEnemy.hp = s.currentEnemy.hp
            /\ category # NoCategory =>
                    /\ Accuracy(t, category).correct = Accuracy(s, category).correct
                    /\ Accuracy(t, category).total = Accuracy(s, category).total + 1
        /\ AttackStep(TRUE) \/ AttackStep(FALSE) =>
            t.statistics.totalQuestionsAnswered = s.statistics.totalQuestionsAnswered + 1

\* C22 as stated: after a wrong answer with no unused dodge the player's hp is the old
\* hp less e, not below 0
C22_OriginalStep ==
    /\ MissCounts
    /\ AttackStep(FALSE) /\ ~DodgeReady(gameState) =>
            gameState'.playerStats.hp = HpLeft(gameState)

C22_Original == [][C22_OriginalStep]_vars

C22_Step ==
    /\ MissCounts
    /\ AttackStep(FALSE) /\ ~DodgeReady(gameState) =>
            IF HpLeft(gameState) > 0
            THEN gameState'.playerStats.hp = HpLeft(gameState)
            ELSE gameState'.playerStats.hp \in {0, 1, gameState.playerStats.maxHp}

\* C22: a wrong answer with an enemy present and no unused dodge takes e from the
\* player's hp, not below 0, e being max(1, enemy atk - def) and with the lightning
\* chain floor(1.1 times that); hp brought to 0 is then set by the defeat chain to 1
\* (shield), to maxHp (revival) or left at 0; the enemy's hp stays, a category given has
\* one more answer and no more correct ones, and every attack with an enemy present
\* counts one question
C22_Miss == [][C22_Step]_vars

\* a wrong answer in a category under the lightning chain: the slime takes
\* floor(5 * 1.1) = 5 of the player's 100 hp
C22_Witness ==
    /\ lastOp.op = "attack"
    /\ lastOp.params = <<FALSE, "math">>
    /\ gameState.adventureSkills.skillEffects.lightningChainActive
    /\ gameState.playerStats.hp = 95
    /\ gameState.currentEnemy # Null
    /\ gameState.currentEnemy.hp = 10
    /\ gameState.statistics.totalQuestionsAnswered = 1
    /\ Accuracy(gameState, "math") = [correct |-> 0, total |-> 1]

\* ---- C23

\* the attack of the step has ended the combat, by victory or by terminal defeat
CombatEnded ==
    /\ lastOp'.op = "attack"
    /\ gameState.inCombat
    /\ ~gameState'.inCombat

NoSkillWhenIdle ==
    gameState # Null /\ ~gameState.inCombat =>
        gameState.adventureSkills.selectedSkill = Null

SkillsClearedAtEnd ==
    CombatEnded =>
        /\ gameState'.adventureSkills.selectedSkill = Null
        /\ gameState'.adventureSkills.availableSkills = <<>>
        /\ ~gameState'.adventureSkills.showSelectionModal
        /\ \A flag \in DOMAIN gameState'.adventureSkills.skillEffects :
                ~gameState'.adventureSkills.skillEffects[flag]
        /\ DOMAIN gameState'.adventureSkills.skillEffects =
                {"skipCardUsed", "metalShieldUsed", "dodgeUsed", "truthLiesActive",
                 "lightningChainActive", "rampActive"}

\* C23: the attack that ends a combat leaves no skill selected, none on offer, the
\* modal hidden and the six effect flags false, and outside combat no skill is ever
\* selected
C23_SkillLivesOneCombat == []NoSkillWhenIdle /\ [][SkillsClearedAtEnd]_vars

\* a combat fought with a skill has just been lost for good
C23_Witness ==
    /\ lastOp.op = "attack"
    /\ lastOp.params[1] = FALSE
    /\ ~gameState.inCombat
    /\ gameState.statistics.totalDeaths = 1
    /\ gameState.statistics.totalVictories = 0
    /\ gameState.adventureSkills = emptyAdventureSkills
    /\ combats = 1

\* ---- C24

\* the step has put the player in front of a new enemy
CombatEntered ==
    /\ lastOp'.op \in {"selectAdventureSkill", "skipAdventureSkills"}
    /\ gameState'.inCombat
    /\ gameState'.currentEnemy # Null

C24_Step ==
    /\ CombatEntered =>
            /\ gameState.adventureSkills.showSelectionModal
            /\ ~gameState.inCombat
    /\ ~gameState.inCombat /\ gameState'.inCombat => CombatEntered

\* C24: a combat is entered by selectAdventureSkill or skipAdventureSkills only, and only
\* from a state in which startCombat has shown the selection modal and no combat is on
C24_Lifecycle == [][C24_Step]_vars

\* ---- C25

StatNames == {"atk", "def", "hp"}

C25_Step ==
    lastOp'.op = "selectAdventureSkill" /\ lastOp'.params = <<"ramp">> =>
        /\ gameState'.adventureSkills.skillEffects.rampActive
        /\ \E doubled \in StatNames : \E reduced \in StatNames \ {doubled} :
               LET before == gameState.playerStats
                   after == gameState'.playerStats
               IN  /\ after[doubled] = 2 * before[doubled]
                   /\ after[reduced] = (6 * before[reduced]) \div 10
                   /\ \A other \in StatNames \ {doubled, reduced} :
                          after[other] = before[other]
                   /\ after.maxHp = before.maxHp

\* C25: selecting ramp doubles one of atk, def and hp, sets a different one of them to
\* floor(0.6 x its value), leaves the third as it was and sets rampActive, whatever
\* the random draws give
C25_Ramp == [][C25_Step]_vars

\* ramp has doubled the hit points and cut the attack of a fresh player
C25_Witness ==
    /\ lastOp.op = "selectAdventureSkill"
    /\ lastOp.params = <<"ramp">>
    /\ gameState.adventureSkills.skillEffects.rampActive
    /\ gameState.playerStats.hp = 200
    /\ gameState.playerStats.atk = 12
    /\ gameState.playerStats.def = 10

\* ---- C26

\* the fields of the object and of the persisted object under it, the latter on top
Populated(object, default, persisted) ==
    /\ DOMAIN default \subseteq DOMAIN object
    /\ \A f \in DOMAIN default \ DOMAIN persisted : object[f] = default[f]

C26_Step ==
    lastOp'.op = "loadGameState" /\ IsSnapshot(storage) =>
        LET skills == SpreadOf(storage, "skills")
            adventureSkills == SpreadOf(storage, "adventureSkills")
            skillEffects == SpreadOf(adventureSkills, "skillEffects")
        IN  /\ Populated(gameState'.skills, createInitialGameState.skills, skills)
            /\ \A f \in DOMAIN skills : gameState'.skills[f] = skills[f]
            /\ Populated(gameState'.adventureSkills, emptyAdventureSkills, adventureSkills)
            /\ \A f \in DOMAIN adventureSkills \ {"skillEffects"} :
                   gameState'.adventureSkills[f] = adventureSkills[f]
            /\ Populated(gameState'.adventureSkills.skillEffects, emptySkillEffects,
                         skillEffects)
            /\ \A f \in DOMAIN skillEffects :
                   gameState'.adventureSkills.skillEffects[f] = skillEffects[f]

\* C26: after the load of a snapshot, every field of the default skills and of the
\* default adventureSkills is in the state, each of the six skillEffects flags
\* included, and where the snapshot holds a value the state holds that value
C26_DeepMerge == [][C26_Step]_vars

\* ---- C27

\* the step ran none of the three branches of the defeat chain
DefeatChainIdle ==
    LET s == gameState
        t == gameState'
    IN  /\ s.adventureSkills.skillEffects.metalShieldUsed
           \/ ~t.adventureSkills.skillEffects.metalShieldUsed
        /\ t.hasUsedRevival = s.hasUsedRevival
        /\ t.statistics.revivals = s.statistics.revivals
        /\ t.statistics.totalDeaths = s.statistics.totalDeaths

C27_Step ==
    /\ AttackStep(TRUE) => DefeatChainIdle
    /\ \A hit \in BOOLEAN :
           AttackStep(hit) =>
               \/ gameState'.statistics.totalVictories = gameState.statistics.totalVictories
               \/ gameState'.statistics.totalDeaths = gameState.statistics.totalDeaths

\* C27: an attack that hits consumes no shield and no revival and counts no death, and
\* no attack counts both a victory and a death
C27_HitNeverDefeats == [][C27_Step]_vars

\* ---- C28

\* the skill each effect flag belongs to
FlagSkill ==
    [lightningChainActive |-> "lightning_chain", truthLiesActive |-> "truth_lies",
     rampActive |-> "ramp", skipCardUsed |-> "skip_card",
     metalShieldUsed |-> "metal_shield", dodgeUsed |-> "dodge"]

\* C28: an effect flag is set only while the skill it belongs to is the selected one
C28_FlagsAgree ==
    gameState # Null =>
        \A flag \in DOMAIN FlagSkill :
            gameState.adventureSkills.skillEffects[flag] =>
                SkillType(gameState.adventureSkills.selectedSkill) = FlagSkill[flag]

\* ---- C29

InCombat == gameState # Null /\ gameState.inCombat

\* the flags an attack may spend to keep the combat going
Spent(state) ==
    {flag \in {"dodgeUsed", "metalShieldUsed"} : state.adventureSkills.skillEffects[flag]}
        \cup (IF state.hasUsedRevival THEN {"hasUsedRevival"} ELSE {})

\* an attack made in a combat ends it, lowers the hp of the enemy or of the player by
\* 1 at least, or spends one more of the three flags
C29_Step ==
    lastOp'.op = "attack" /\ InCombat /\ gameState.currentEnemy # Null =>
        \/ ~gameState'.inCombat
        \/ gameState'.currentEnemy.hp <= gameState.currentEnemy.hp - 1
        \/ gameState'.playerStats.hp <= gameState.playerStats.hp - 1
        \/ /\ Spent(gameState) \subseteq Spent(gameState')
           /\ Spent(gameState') # Spent(gameState)

\* the quiz still has a question for a combat that is on
AttackOffered ==
    InCombat => gameState.statistics.totalQuestionsAnswered < MaxDuelQuestions

\* C29: a combat ends after finitely many attacks, whatever mix of hits and misses
\* they are: each attack ends it, lowers the enemy's or the player's hp by 1 at least,
\* or consumes one of dodgeUsed, metalShieldUsed and hasUsedRevival
C29_CombatEnds == [][C29_Step]_gameState /\ []AttackOffered /\ (InCombat ~> ~InCombat)

\* a combat that went through a dodge, hits, the revival and more misses has ended in
\* defeat
C29_Witness ==
    /\ lastOp.op = "attack"
    /\ ~gameState.inCombat
    /\ combats = 1
    /\ gameState.statistics.totalDeaths = 1
    /\ gameState.statistics.revivals = 1
    /\ gameState.statistics.correctAnswers = 2
    /\ gameState.statistics.totalQuestionsAnswered = 7

\* ---- C30

\* the step ends the initial load
LoadEnds == isLoading /\ ~isLoading'

\* what the load makes of the store, read or not
Hydrated(read) == IF read THEN loadGameStateT(storage) ELSE createInitialGameState

C30_Step ==
    /\ isLoading => storage' = storage
    /\ LoadEnds => gameState' = Hydrated(lastOp'.ok)
    /\ storage' # storage => gameState' = gameState /\ storage' = serialize(gameState)

HookSteps == {"loadGameState", "loadGameStateReadError", "saveGameState", "saveSkipped"}

C31_Step ==
    /\ lastOp'.op = "resetGame" => gameState' = createInitialGameState
    /\ gameState = createInitialGameState /\ lastOp'.op \in HookSteps =>
            gameState' = createInitialGameState

\* C31: resetGame sets the default state, and the default state stays until the next
\* operation of the player: neither the end of the initial load nor the save effect
\* replaces it
C31_ResetSurvivesLoad == [][C31_Step]_vars

\* ---- C32

\* the equipped item, when there is one, is in the list at the same level and cost
HeldAsEquipped(list, current) ==
    current # Null =>
        \E item \in Range(list) :
            /\ item.id = current.id
            /\ item.level = current.level
            /\ item.upgradeCost = current.upgradeCost

\* C32: the equipped weapon and the equipped armor are items of the inventory, with
\* the level and the upgrade cost the inventory holds for them
C32_EquippedInInventory ==
    gameState # Null =>
        /\ HeldAsEquipped(gameState.inventory.weapons, gameState.inventory.currentWeapon)
        /\ HeldAsEquipped(gameState.inventory.armor, gameState.inventory.currentArmor)

====
